---- MODULE Spec2Model ----
(***************************************************************************)
(* Panhandle Pulse: the feed-ingest worker (apps/worker/index.js), the     *)
(* story writer (apps/worker/writer.js), the search-ingest worker          *)
(* (apps/worker/search_ingest.js), the feed normalizers and the combined   *)
(* feed query of the web app, as state machines over the Postgres tables   *)
(* they share.                                                             *)
(*                                                                         *)
(* Spec       : two feed-ingest runs (runOnce) interleaved on one database.*)
(* SpecSynth  : two story-writer runs (main) interleaved on one database.  *)
(* SpecResume : SpecSynth with runs that may be terminated from outside.   *)
(* SpecParse  : the Atom branch of parseRss / normalizeRssItems applied to *)
(*              every entry of a bounded set.                              *)
(* SpecSearch : one search-ingest run (run) against a destination table.   *)
(* SpecRerun  : the search-ingest worker started again after it exited.    *)
(* SpecSearchLive : SpecSearch with fairness for the worker's own steps.   *)
(* SpecSample : loadRecentFeedItems of the writer on tables of many sizes. *)
(* SpecCand   : buildCandidateFeeds applied to every source of a bounded   *)
(*              set.                                                       *)
(* SpecSync   : Spec with a catalog that is edited between two runs.       *)
(* SpecPipeline : one feed-ingest run and one story-writer run interleaved *)
(*              on one database.                                           *)
(* SpecWeb    : getCombinedFeed of the web app (apps/web/lib/queries.ts)   *)
(*              on every pair of tables of a bounded set.                  *)
(*                                                                         *)
(* Text values are strings; sha256 is taken as injective, so a digest is   *)
(* represented by the text that was hashed.  Times are whole hours.        *)
(***************************************************************************)
EXTENDS Integers, Sequences, FiniteSets, TLC

VARIABLES
    \* ---- database (shared by every run)
    schema,         \* the schema ensureSchema has installed
    sources,        \* table sources: set of rows
    feed_items,     \* table feed_items: set of rows
    stories,        \* table stories: set of rows
    story_sources,  \* table story_sources: story id -> cited feed item ids, in insert order
    \* ---- feed ingest (index.js runOnce), per run
    config,         \* the parsed sources.yaml
    fpc,            \* position of each run in runOnce
    fsrc,           \* index of the current source in the flattened list
    fcand,          \* index of the next candidate URL to probe
    fres,           \* resolved feed of the current source: [feedUrl, items]
    fitem,          \* index of the next item of resolved.items
    fsid,           \* sourceId returned by upsertSource
    fcount,         \* [ok, failed, attempted, ingestible]
    probeLog,       \* the fetches issued for the current source: <<[url, n]>>,
                    \* n the number of items the fetched document parses into
    fpace,          \* what the run did last towards third parties: "none" before
                    \* its first fetch, "request" after a fetch, "slept" after
                    \* sleep(pauseBetweenSourcesMs)
    \* ---- story writer (writer.js main), per run
    clock,          \* wall clock, hours
    wpc,            \* position of each run in main
    wwin,           \* [windowStart, windowEnd] of the run
    wgroups,        \* Map of groups, in insertion order: <<[state, county, items]>>
    wg,             \* index of the current group
    wstory,         \* id of the story row inserted for the current group
    wchosen,        \* items chosen by insertStorySources
    wci,            \* index of the next chosen item to insert
    wcount,         \* [created, skipped, failed]
    aiCalls,        \* per run, the generation calls issued: <<[g, prompt]>>
    outcome,        \* per run, per group index: how the group ended
    offered,        \* per story id: the run and group it was written for, the items
                    \* listed in its prompt and the used_source_indexes received
    overlapped,     \* TRUE once two writer runs have been active at the same time
    \* ---- normalizer inputs
    entry,          \* an Atom entry handed to the normalizers
    norm,           \* the links the two normalizers produced for it
    csrc,           \* a catalog source handed to buildCandidateFeeds
    cands,          \* <<>> before the call, then <<the list it returned>>
    \* ---- search ingest (search_ingest.js run)
    dest,           \* the target table as the database declares it
    trows,          \* the rows of the target table, in insert order
    minKeywordLen,  \* MIN_KEYWORD_LEN of the environment
    spc,            \* position of the worker in run
    sruns,          \* how many times the worker has been started
    swin,           \* [start, end] of the run's lookback window, hours
    sreg,           \* index of the current region
    sqry,           \* index of the current query of the region
    sarticles,      \* the articles of the current response
    sart,           \* index of the next article to write
    stotals,        \* [totalResults, totalWrites, totalRowErrors]
    requests,       \* the search requests the run has issued, in order, and how
                    \* each ended
    written,        \* every (region, query, window, article) a statement has stored
    dbErrors,       \* failures of the database itself so far
    \* ---- web reads (apps/web/lib/queries.ts)
    pageStories,    \* table stories as the web queries read it: set of rows
    pageSearch,     \* table panhandle_search_articles: set of rows
    feedLimit,      \* the limit handed to getCombinedFeed
    feed            \* <<>> before the call, then <<the rows it returned>>

dbVars == <<schema, sources, feed_items, stories, story_sources>>
feedVars == <<config, fpc, fsrc, fcand, fres, fitem, fsid, fcount, probeLog, fpace>>
synthVars == <<clock, wpc, wwin, wgroups, wg, wstory, wchosen, wci, wcount,
               aiCalls, outcome, offered, overlapped>>
parseVars == <<entry, norm, csrc, cands>>
searchVars == <<dest, trows, minKeywordLen, spc, sruns, swin, sreg, sqry, sarticles,
                sart, stotals, requests, written, dbErrors>>
webVars == <<pageStories, pageSearch, feedLimit, feed>>
vars == <<dbVars, feedVars, synthVars, parseVars, searchVars, webVars>>

Runs == {1, 2}

\* JavaScript undefined, for a value that is otherwise a string
Undefined == "undefined"
\* A nullable timestamp is <<>> (SQL NULL) or <<t>>
NULL == <<>>

Range(s) == {s[i] : i \in DOMAIN s}

Min(a, b) == IF a < b THEN a ELSE b

\* ------------------------------------------------------------------------
\* Source catalog
\* ------------------------------------------------------------------------

\* A YAML flag is truthy only when it is the boolean true ("true" here);
\* "false" and an absent flag (Undefined) are falsy.
Truthy(flag) == flag = "true"

SrcA == [source_name |-> "Bay County", enabled |-> "true",
         rss_url |-> "https://a.com/feed", website_url |-> "https://a.com"]
SrcB == [source_name |-> "WJHG", enabled |-> "true",
         rss_url |-> "https://b.org/rss", website_url |-> ""]
SrcC == [source_name |-> "Star", enabled |-> Undefined,
         rss_url |-> "https://c.net/atom.xml", website_url |-> "not a url"]
SrcD == [source_name |-> "Off", enabled |-> "false",
         rss_url |-> "https://d.io/feed", website_url |-> ""]
SrcE == [source_name |-> "Gulf Times", enabled |-> "true",
         rss_url |-> "https://e.us/rss", website_url |-> ""]

\* sources.yaml after yaml.load: states -> counties -> {enabled, sources}; the
\* entries of an object are kept in insertion order.
ConfigProbe ==
    [states |-> << [code |-> "FL", counties |->
        << [name |-> "Bay", enabled |-> "true", sources |-> <<SrcA>>] >>] >>]
ConfigDedup ==
    [states |-> << [code |-> "FL", counties |->
        << [name |-> "Bay", enabled |-> "true", sources |-> <<SrcB, SrcD, SrcC>>],
           [name |-> "Gulf", enabled |-> "false", sources |-> <<SrcE>>] >>] >>]
\* A catalog file that parses to a mapping without a states key
ConfigNoStates == [version |-> "1"]
\* No sources.yaml at any of CONFIG_PATH_CANDIDATES
ConfigNoFile == [nofile |-> TRUE]
Configs == {ConfigProbe, ConfigDedup, ConfigNoStates, ConfigNoFile}

\* loadSourcesYaml: a candidate path exists and is parsed; otherwise it throws
CatalogFound(cfg) == "nofile" \notin DOMAIN cfg

RECURSIVE FlattenCounties(_, _)
FlattenCounties(stateCode, counties) ==
    IF counties = <<>> THEN <<>>
    ELSE LET c == Head(counties)
             mine == IF ~Truthy(c.enabled) THEN <<>>
                     ELSE [i \in 1..Len(c.sources) |->
                             [state |-> stateCode, county |-> c.name,
                              source_name |-> c.sources[i].source_name,
                              enabled |-> c.sources[i].enabled,
                              rss_url |-> c.sources[i].rss_url,
                              website_url |-> c.sources[i].website_url]]
         IN mine \o FlattenCounties(stateCode, Tail(counties))

RECURSIVE FlattenStates(_)
FlattenStates(states) ==
    IF states = <<>> THEN <<>>
    ELSE FlattenCounties(Head(states).code, Head(states).counties)
         \o FlattenStates(Tail(states))

\* flattenSources line 38: no config or no states map gives the empty list
flattenSources(cfg) ==
    IF "states" \notin DOMAIN cfg THEN <<>> ELSE FlattenStates(cfg.states)

\* runOnce line 296: a source is skipped only when its flag is present and falsy.
SourceSkipped(src) == ~Truthy(src.enabled) /\ src.enabled # Undefined

\* ------------------------------------------------------------------------
\* Candidate feed URLs
\* ------------------------------------------------------------------------

\* v || "" for a text that may be absent
OrEmpty(v) == IF v = Undefined THEN "" ELSE v

\* String.prototype.trim
Whitespace == {" ", "\t", "\n"}

RECURSIVE TrimStart(_)
TrimStart(s) ==
    IF s # "" /\ SubSeq(s, 1, 1) \in Whitespace
    THEN TrimStart(SubSeq(s, 2, Len(s))) ELSE s

RECURSIVE TrimEnd(_)
TrimEnd(s) ==
    IF s # "" /\ SubSeq(s, Len(s), Len(s)) \in Whitespace
    THEN TrimEnd(SubSeq(s, 1, Len(s) - 1)) ELSE s

trim(s) == TrimEnd(TrimStart(s))

\* new URL(websiteUrl).host on the website URLs used here; "" when the
\* constructor throws (no scheme, empty text).
safeUrlHost(websiteUrl) ==
    CASE websiteUrl \in {"https://a.com", "https://a.com/news", "http://a.com"} -> "a.com"
      [] OTHER -> ""

DerivedPaths ==
    << "/feed/", "/feed", "/rss", "/rss.xml", "/atom.xml",
       "/RSSFeed.aspx?CID=All-newsflash.xml&ModID=1",
       "/RSSFeed.aspx?CID=All-0&ModID=63", "/RSS.aspx",
       "/CivicAlerts.aspx?rss=true" >>

\* A variant that returns the candidates as pushed
DeDupeKeepAll(s) == s

\* [...new Set(candidates)]: first occurrences, in order
RECURSIVE DeDupe(_)
DeDupe(s) ==
    IF s = <<>> THEN <<>>
    ELSE LET front == DeDupe(SubSeq(s, 1, Len(s) - 1))
             last == s[Len(s)]
         IN IF last \in Range(front) THEN front ELSE Append(front, last)

buildCandidateFeeds(src) ==
    LET rss == trim(OrEmpty(src.rss_url))
        first == IF rss # "" THEN <<rss>> ELSE <<>>
        host == safeUrlHost(trim(OrEmpty(src.website_url)))
    IN IF host = "" THEN first
       ELSE DeDupe(first \o [i \in 1..Len(DerivedPaths) |->
                               "https://" \o host \o DerivedPaths[i]])


\* ------------------------------------------------------------------------
\* Feed normalizer.  A document is what XMLParser.parse returns: the item /
\* entry list is <<>> when the element is absent, else the sequence of
\* its elements (a single element is wrapped into an array by the code).
\* ------------------------------------------------------------------------

\* e.link of an Atom entry: <<>> when absent, one link object, or an array of
\* two or more.  A link is [rel, href], each a string or Undefined.
IsArray(link) == Len(link) >= 2

\* Array.prototype.find: index of the first element with rel = "alternate", 0 if none
FindAlternate(link) ==
    LET hit == {i \in 1..Len(link) : link[i].rel = "alternate"}
    IN IF hit = {} THEN 0 ELSE CHOOSE i \in hit : \A j \in hit : i <= j

\* index.js parseRss, Atom branch, the link of one entry (lines 115-117)
\* A variant that takes the first link of the list
AtomLinkFirst(link) ==
    IF link = <<>> THEN "" ELSE OrEmpty(link[1].href)

AtomLink(link) ==
    IF IsArray(link)
    THEN LET i == FindAlternate(link)
         IN IF i = 0 THEN "" ELSE OrEmpty(link[i].href)
    ELSE IF link = <<>> THEN "" ELSE OrEmpty(link[1].href)

\* rss_ingest normalizeRssItems, Atom branch, the link of one entry (lines 79-82):
\* (isArray ? find(alternate) : link)?.href ?? link?.href ?? ""
\* (an array has no "@_href" property of its own)
AtomLinkNormalize(link) ==
    LET picked == IF IsArray(link)
                  THEN (IF FindAlternate(link) = 0 THEN Undefined
                        ELSE link[FindAlternate(link)].href)
                  ELSE (IF link = <<>> THEN Undefined ELSE link[1].href)
        second == IF IsArray(link) \/ link = <<>> THEN Undefined ELSE link[1].href
    IN IF picked # Undefined THEN picked
       ELSE IF second # Undefined THEN second ELSE ""

RssItem(it) ==
    [title |-> OrEmpty(it.title), link |-> OrEmpty(it.link),
     pubDate |-> OrEmpty(it.pubDate), summary |-> OrEmpty(it.description)]

AtomItem(e) ==
    [title |-> OrEmpty(e.title), link |-> AtomLink(e.link),
     pubDate |-> IF OrEmpty(e.updated) # "" THEN e.updated ELSE OrEmpty(e.published),
     summary |-> OrEmpty(e.summary)]

parseRss(doc) ==
    IF doc.kind = "rss" /\ doc.item # <<>>
    THEN [i \in 1..Len(doc.item) |-> RssItem(doc.item[i])]
    ELSE IF doc.kind = "atom" /\ doc.entry # <<>>
    THEN [i \in 1..Len(doc.entry) |-> AtomItem(doc.entry[i])]
    ELSE <<>>

\* new Date(pubDate) on the date texts of the model's documents: <<hour>>, or
\* <<>> when getTime() is NaN.
DateOf(pubDate) ==
    CASE pubDate = "Mon, 02 Nov 2026 10:00:00 GMT" -> <<10>>
      [] pubDate = "2026-11-02T11:00:00Z" -> <<11>>
      [] OTHER -> <<>>

\* A variant of toTimestamp that stores the epoch for a date it cannot read
toTimestampEpoch(pubDate) ==
    IF pubDate = "" THEN NULL
    ELSE IF DateOf(pubDate) = <<>> THEN <<0>> ELSE DateOf(pubDate)

toTimestamp(pubDate) ==
    IF pubDate = "" THEN NULL
    ELSE IF DateOf(pubDate) = <<>> THEN NULL ELSE DateOf(pubDate)

\* sha256(`${title}||${link}`), the digest standing for the hashed text
hashItem(title, link) == title \o "||" \o link

DocNews ==
    [kind |-> "rss", item |->
      << [title |-> "a||", link |-> "b", pubDate |-> Undefined, description |-> "s"],
         [title |-> "a", link |-> "||b", pubDate |-> "Mon, 02 Nov 2026 10:00:00 GMT",
          description |-> Undefined],
         [title |-> "a", link |-> "b", pubDate |-> "yesterday", description |-> "s"] >>]
DocDrop ==
    [kind |-> "rss", item |->
      << [title |-> Undefined, link |-> "x", pubDate |-> Undefined, description |-> "s"],
         [title |-> "t", link |-> Undefined, pubDate |-> Undefined, description |-> "s"],
         [title |-> Undefined, link |-> Undefined, pubDate |-> Undefined,
          description |-> Undefined] >>]
DocAtom ==
    [kind |-> "atom", entry |->
      << [title |-> "a", updated |-> "2026-11-02T11:00:00Z", published |-> Undefined,
          summary |-> Undefined,
          link |-> << [rel |-> "self", href |-> "https://c.net/atom.xml"],
                      [rel |-> "alternate", href |-> "b"] >>] >>]
DocEmptyChannel == [kind |-> "rss", item |-> <<>>]
DocHtml == [kind |-> "html"]
Docs == {DocNews, DocDrop, DocAtom, DocEmptyChannel, DocHtml}

\* What one fetchText + parse can come to: fetch aborted by the timer, a
\* non-ok status, a network error, the XML parser throwing, or a document.
ProbeFailures ==
    {[kind |-> "timeout"], [kind |-> "http_status"], [kind |-> "network"],
     [kind |-> "parse_error"]}


\* ------------------------------------------------------------------------
\* Database operations of the feed-ingest worker
\* ------------------------------------------------------------------------

\* ensureSchema runs apps/worker/db/schema.sql at every start: CREATE ... IF
\* NOT EXISTS for the tables and for the unique indexes
\* sources_state_county_name_unique and feed_items_source_hash_unique, so the
\* database a run works on is always "full".
Schemas == {"full"}

\* ON CONFLICT (state, county, source_name) needs a matching unique index
UpsertSourceFails == schema # "full"

SourceKeyRows(s) ==
    {row \in sources : row.state = s.state /\ row.county = s.county
                       /\ row.source_name = s.source_name}

\* A variant of upsertSource without the ON CONFLICT clause: every call adds a row
UpsertSourceAppend(s) ==
    sources \cup {[id |-> Cardinality(sources) + 1, state |-> s.state,
                   county |-> s.county, source_name |-> s.source_name,
                   website_url |-> s.website_url, rss_url |-> s.rss_url,
                   enabled |-> TRUE]}

\* upsertSource: the table after the statement
UpsertSourceRows(s) ==
    IF SourceKeyRows(s) = {}
    THEN sources \cup {[id |-> Cardinality(sources) + 1, state |-> s.state,
                        county |-> s.county, source_name |-> s.source_name,
                        website_url |-> s.website_url, rss_url |-> s.rss_url,
                        enabled |-> TRUE]}
    ELSE {IF row \in SourceKeyRows(s)
          THEN [row EXCEPT !.website_url = s.website_url, !.rss_url = s.rss_url,
                           !.enabled = TRUE]
          ELSE row : row \in sources}

\* upsertSource: RETURNING id
UpsertSourceId(s) ==
    IF SourceKeyRows(s) = {} THEN Cardinality(sources) + 1
    ELSE (CHOOSE row \in SourceKeyRows(s) : TRUE).id

FeedItemRow(id, sourceId, item) ==
    [id |-> id, source_id |-> sourceId, title |-> item.title, link |-> item.link,
     published_at |-> toTimestamp(item.pubDate), summary |-> item.summary,
     content_hash |-> hashItem(item.title, item.link)]

\* A variant of insertFeedItem whose conflict target also holds published_at
InsertFeedItemByDate(rows, sourceId, item) ==
    IF \E row \in rows : row.source_id = sourceId
                         /\ row.content_hash = hashItem(item.title, item.link)
                         /\ row.published_at = toTimestamp(item.pubDate)
    THEN rows
    ELSE rows \cup {FeedItemRow(Cardinality(rows) + 1, sourceId, item)}

\* A variant of insertFeedItem without the ON CONFLICT target: every call adds a row
InsertFeedItemAlways(rows, sourceId, item) ==
    rows \cup {FeedItemRow(Cardinality(rows) + 1, sourceId, item)}

\* A variant of insertFeedItem with DO UPDATE: a conflicting row takes the
\* summary and the time of the new item
InsertFeedItemUpdate(rows, sourceId, item) ==
    LET hit == {row \in rows : row.source_id = sourceId
                               /\ row.content_hash = hashItem(item.title, item.link)}
    IN IF hit = {}
       THEN rows \cup {FeedItemRow(Cardinality(rows) + 1, sourceId, item)}
       ELSE (rows \ hit) \cup {FeedItemRow(row.id, sourceId, item) : row \in hit}

\* insertFeedItem: feed_items after INSERT ... ON CONFLICT (source_id,
\* content_hash) DO NOTHING.  The statement is atomic; ids are handed out in
\* insertion order.
InsertFeedItemRows(rows, sourceId, item) ==
    IF \E row \in rows : row.source_id = sourceId
                         /\ row.content_hash = hashItem(item.title, item.link)
    THEN rows
    ELSE rows \cup {FeedItemRow(Cardinality(rows) + 1, sourceId, item)}

\* ------------------------------------------------------------------------
\* Feed ingest: runOnce, one action per await
\* ------------------------------------------------------------------------

Srcs == flattenSources(config)
CurSrc(r) == Srcs[fsrc[r]]
Cands(r) == buildCandidateFeeds(CurSrc(r))

NoFeed == [feedUrl |-> "", items |-> <<>>]
ZeroFeedCount == [ok |-> 0, failed |-> 0, attempted |-> 0, ingestible |-> 0]

\* loadSourcesYaml, flattenSources, getDbClient, ensureSchema.  A throw of
\* loadSourcesYaml rejects runOnce before getDbClient: "fatal" is exit(1) of
\* runOnce().catch; from "loop" on the database connection is open.
FStart(r) ==
    /\ fpc[r] = "idle"
    /\ fpc' = [fpc EXCEPT ![r] = IF CatalogFound(config) THEN "loop" ELSE "fatal"]
    /\ fsrc' = [fsrc EXCEPT ![r] = 1]
    /\ fcount' = [fcount EXCEPT ![r] = ZeroFeedCount]
    /\ UNCHANGED <<dbVars, config, fcand, fres, fitem, fsid, probeLog, fpace>>
    /\ UNCHANGED <<synthVars, parseVars, webVars, searchVars>>

\* for (const src of sources): the enabled test, then resolveFeedUrl is entered
FBegin(r) ==
    /\ fpc[r] = "loop"
    /\ fsrc[r] <= Len(Srcs)
    /\ IF SourceSkipped(CurSrc(r))
       THEN /\ fsrc' = [fsrc EXCEPT ![r] = @ + 1]
            /\ UNCHANGED <<fpc, fcand, probeLog>>
       ELSE /\ fpc' = [fpc EXCEPT ![r] = "resolving"]
            /\ fcand' = [fcand EXCEPT ![r] = 1]
            /\ probeLog' = [probeLog EXCEPT ![r] = <<>>]
            /\ UNCHANGED fsrc
    /\ fres' = [fres EXCEPT ![r] = NoFeed]
    /\ UNCHANGED <<dbVars, config, fitem, fsid, fcount, fpace>>
    /\ UNCHANGED <<synthVars, parseVars, webVars, searchVars>>

\* What parseRss makes of a probe: the items, <<>> for any failure
ProbeItems(out) == IF out \in ProbeFailures THEN <<>> ELSE parseRss(out)

\* A variant of the success test that accepts every probe that did not throw
ProbeSucceedsAny(out) == out \notin ProbeFailures

\* resolveFeedUrl line 181: items.length > 0
ProbeSucceeds(out) == Len(ProbeItems(out)) > 0

\* A variant of the loop that goes on probing after a success
AfterProbeGoOn(r, out) ==
    IF ProbeSucceeds(out) /\ fcand[r] = Len(Cands(r)) THEN "resolved" ELSE "resolving"

\* resolveFeedUrl lines 181-186: return on success, else the next candidate
AfterProbe(r, out) == IF ProbeSucceeds(out) THEN "resolved" ELSE "resolving"

\* one turn of the loop of resolveFeedUrl: fetchText(url), parseRss(xml)
FProbe(r, out) ==
    /\ fpc[r] = "resolving"
    /\ fcand[r] <= Len(Cands(r))
    /\ probeLog' = [probeLog EXCEPT ![r] =
                      Append(@, [url |-> Cands(r)[fcand[r]], n |-> Len(ProbeItems(out))])]
    /\ fpc' = [fpc EXCEPT ![r] = AfterProbe(r, out)]
    /\ IF ProbeSucceeds(out)
       THEN fres' = [fres EXCEPT ![r] = [feedUrl |-> Cands(r)[fcand[r]],
                                         items |-> ProbeItems(out)]]
       ELSE UNCHANGED fres
    /\ fcand' = [fcand EXCEPT ![r] = IF AfterProbe(r, out) = "resolved" THEN @ ELSE @ + 1]
    /\ fpace' = [fpace EXCEPT ![r] = "request"]
    /\ UNCHANGED <<dbVars, config, fsrc, fitem, fsid, fcount>>
    /\ UNCHANGED <<synthVars, parseVars, webVars, searchVars>>

\* resolveFeedUrl line 189 and runOnce lines 303-306: no candidate succeeded
FNotFound(r) ==
    /\ fpc[r] = "resolving"
    /\ fcand[r] > Len(Cands(r))
    /\ fpc' = [fpc EXCEPT ![r] = "loop"]
    /\ fsrc' = [fsrc EXCEPT ![r] = @ + 1]
    /\ UNCHANGED <<dbVars, config, fcand, fres, fitem, fsid, fcount, probeLog, fpace>>
    /\ UNCHANGED <<synthVars, parseVars, webVars, searchVars>>

\* runOnce lines 308-311: ingestible += 1, upsertSource; when it throws, the
\* catch of lines 324-327 and the sleep of line 329
FUpsert(r) ==
    /\ fpc[r] = "resolved"
    /\ LET s == [CurSrc(r) EXCEPT !.rss_url = fres[r].feedUrl]
       IN IF UpsertSourceFails
          THEN /\ fcount' = [fcount EXCEPT ![r].ingestible = @ + 1, ![r].failed = @ + 1]
               /\ fpc' = [fpc EXCEPT ![r] = "loop"]
               /\ fsrc' = [fsrc EXCEPT ![r] = @ + 1]
               /\ fpace' = [fpace EXCEPT ![r] = "slept"]
               /\ UNCHANGED <<sources, fsid, fitem>>
          ELSE /\ fcount' = [fcount EXCEPT ![r].ingestible = @ + 1]
               /\ sources' = UpsertSourceRows(s)
               /\ fsid' = [fsid EXCEPT ![r] = UpsertSourceId(s)]
               /\ fitem' = [fitem EXCEPT ![r] = 1]
               /\ fpc' = [fpc EXCEPT ![r] = "inserting"]
               /\ UNCHANGED <<fsrc, fpace>>
    /\ UNCHANGED <<schema, feed_items, stories, story_sources>>
    /\ UNCHANGED <<config, fcand, fres, probeLog>>
    /\ UNCHANGED <<synthVars, parseVars, webVars, searchVars>>

\* runOnce line 315
ItemDropped(it) == it.title = "" \/ it.link = ""

\* runOnce lines 314-319: one turn of the loop over resolved.items
FInsert(r) ==
    /\ fpc[r] = "inserting"
    /\ fitem[r] <= Len(fres[r].items)
    /\ LET it == fres[r].items[fitem[r]]
       IN IF ItemDropped(it)
          THEN UNCHANGED <<feed_items, fcount>>
          ELSE /\ feed_items' = InsertFeedItemRows(feed_items, fsid[r], it)
               /\ fcount' = [fcount EXCEPT ![r].attempted = @ + 1]
    /\ fitem' = [fitem EXCEPT ![r] = @ + 1]
    /\ UNCHANGED <<schema, sources, stories, story_sources>>
    /\ UNCHANGED <<config, fpc, fsrc, fcand, fres, fsid, probeLog, fpace>>
    /\ UNCHANGED <<synthVars, parseVars, webVars, searchVars>>

\* runOnce lines 321-329: ok += 1, sleep, next source
FSourceDone(r) ==
    /\ fpc[r] = "inserting"
    /\ fitem[r] > Len(fres[r].items)
    /\ fcount' = [fcount EXCEPT ![r].ok = @ + 1]
    /\ fpc' = [fpc EXCEPT ![r] = "loop"]
    /\ fsrc' = [fsrc EXCEPT ![r] = @ + 1]
    /\ fpace' = [fpace EXCEPT ![r] = "slept"]
    /\ UNCHANGED <<dbVars, config, fcand, fres, fitem, fsid, probeLog>>
    /\ UNCHANGED <<synthVars, parseVars, webVars, searchVars>>

\* runOnce lines 332-337: the summary, client.end()
FFinish(r) ==
    /\ fpc[r] = "loop"
    /\ fsrc[r] > Len(Srcs)
    /\ fpc' = [fpc EXCEPT ![r] = "done"]
    /\ UNCHANGED <<dbVars, config, fsrc, fcand, fres, fitem, fsid, fcount, probeLog, fpace>>
    /\ UNCHANGED <<synthVars, parseVars, webVars, searchVars>>


\* ------------------------------------------------------------------------
\* Story writer: queries and pure functions
\* ------------------------------------------------------------------------

WindowHours == 24
QueryLimit == 1000
limitPerCounty == 40
PromptCap == 20
MinGroupSize == 3
FallbackCount == 6

\* loadRecentFeedItems: the WHERE clause, BETWEEN being inclusive at both ends
Eligible(fi, windowStart, windowEnd) ==
    /\ \/ fi.published_at = NULL
       \/ (fi.published_at[1] >= windowStart /\ fi.published_at[1] <= windowEnd)
    /\ \E src \in sources : src.id = fi.source_id /\ src.enabled

\* ORDER BY fi.published_at DESC NULLS LAST, fi.id DESC
Before(x, y) ==
    IF x.published_at = NULL
    THEN y.published_at = NULL /\ x.id > y.id
    ELSE \/ y.published_at = NULL
         \/ x.published_at[1] > y.published_at[1]
         \/ (x.published_at[1] = y.published_at[1] /\ x.id > y.id)

RECURSIVE OrderRows(_)
OrderRows(S) ==
    IF S = {} THEN <<>>
    ELSE LET first == CHOOSE x \in S : \A y \in S \ {x} : Before(x, y)
         IN <<first>> \o OrderRows(S \ {first})

\* One row of the SELECT: the feed item joined with its source
JoinedRow(fi) ==
    LET src == CHOOSE x \in sources : x.id = fi.source_id
    IN [id |-> fi.id, title |-> fi.title, link |-> fi.link,
        published_at |-> fi.published_at, summary |-> fi.summary,
        state |-> src.state, county |-> src.county, source_name |-> src.source_name]

\* The position of row x among the rows S in that order, from 0
Rank(x, S) == Cardinality({y \in S : Before(y, x)})

\* The rows of the SELECT after LIMIT 1000, as a set: their order is Before
QueryRows(windowStart, windowEnd) ==
    LET all == {JoinedRow(fi) : fi \in
                  {x \in feed_items : Eligible(x, windowStart, windowEnd)}}
    IN {x \in all : Rank(x, all) < QueryLimit}

\* One array of the Map: the rows of the key in row order, the first
\* limitPerCounty of them.  The key `${state}||${county}` is kept as its two
\* parts (main splits it again at "||").
GroupItems(rows, key) ==
    LET members == {x \in rows : x.state = key.state /\ x.county = key.county}
    IN OrderRows({x \in members : Rank(x, members) < limitPerCounty})

\* The Map of groups: keys in order of first appearance, which is the order of
\* the first row of each key
GroupRows(rows) ==
    LET keys == {[state |-> x.state, county |-> x.county] : x \in rows}
        groups == {[state |-> k.state, county |-> k.county,
                    items |-> GroupItems(rows, k)] : k \in keys}
        heads == OrderRows({g.items[1] : g \in groups})
    IN [i \in 1..Len(heads) |-> CHOOSE g \in groups : g.items[1] = heads[i]]

loadRecentFeedItems(windowStart, windowEnd) ==
    GroupRows(QueryRows(windowStart, windowEnd))

\* buildPrompt: the numbered source items, items.slice(0, 20)
PromptItems(items) == SubSeq(items, 1, Min(PromptCap, Len(items)))

\* A variant of the existence query with its window parameters swapped
StoryExistsSwapped(state, county, windowStart, windowEnd) ==
    \E st \in stories :
        /\ st.state = state /\ st.county = county /\ st.story_type = "roundup"
        /\ st.time_window_start = windowEnd /\ st.time_window_end = windowStart

\* storyAlreadyExists
storyAlreadyExists(state, county, windowStart, windowEnd) ==
    \E st \in stories :
        /\ st.state = state /\ st.county = county /\ st.story_type = "roundup"
        /\ st.time_window_start = windowStart /\ st.time_window_end = windowEnd

\* A variant of the size gate that lets a group of two through
TooSmallBelowTwo(items) == Len(items) < MinGroupSize - 1

\* main line 214
TooSmall(items) == Len(items) < MinGroupSize

\* A JSON value of used_source_indexes is a number or a string; Number(v) is
\* <<n>>, or <<>> for NaN.
JsNumber(v) ==
    IF v.type = "number" THEN <<v.n>>
    ELSE CASE v.s = "1" -> <<1>>
           [] v.s = "2" -> <<2>>
           [] OTHER -> <<>>

Num(n) == [type |-> "number", n |-> n]
Str(t) == [type |-> "string", s |-> t]

\* new Set(usedIndexes.map(Number)): first occurrences, in order
UsedSet(elems) == DeDupe([i \in 1..Len(elems) |-> JsNumber(elems[i])])

\* items[idx - 1] is an item only for a whole idx in 1..items.length
RECURSIVE PickUsed(_, _)
PickUsed(items, used) ==
    IF used = <<>> THEN <<>>
    ELSE LET idx == Head(used)
             rest == PickUsed(items, Tail(used))
         IN IF idx # <<>> /\ idx[1] >= 1 /\ idx[1] <= Len(items)
            THEN <<items[idx[1]]>> \o rest
            ELSE rest

\* A variant of the fallback that cites the whole group
ChosenFallbackAll(items, elems) ==
    IF UsedSet(elems) = <<>> THEN items ELSE PickUsed(items, UsedSet(elems))

\* insertStorySources lines 166-177: the items to cite
Chosen(items, elems) ==
    IF UsedSet(elems) = <<>>
    THEN SubSeq(items, 1, Min(FallbackCount, Len(items)))
    ELSE PickUsed(items, UsedSet(elems))

\* parsed.used_source_indexes || []
UsedElems(used) == IF used.kind = "array" THEN used.elems ELSE <<>>

CitationRow(storyId, it) ==
    [story_id |-> storyId, feed_item_id |-> it.id, source_link |-> it.link,
     source_title |-> it.title, source_published_at |-> it.published_at]

\* What callAI and JSON.parse can come to: a transport or format failure, the
\* JSON value null, or an object.  An object's used_source_indexes is absent,
\* an array, or a number (which has no map method).
AiFailures ==
    {[kind |-> "network"], [kind |-> "http_status"], [kind |-> "bad_body"],
     [kind |-> "no_text"], [kind |-> "not_json"], [kind |-> "json_null"]}

Payload(title, body, used) ==
    [kind |-> "object", title |-> title, body_markdown |-> body,
     used_source_indexes |-> used]

\* One array holds a repeated index, a numeric string, zero, a non-numeric
\* string and an index one past the prompt; another holds no index of any
\* group: zero, a non-numeric string and an index past the per-county cap.
UsedChoices ==
    {[kind |-> "absent"],
     [kind |-> "array", elems |-> <<>>],
     [kind |-> "array", elems |-> <<Num(3), Str("1"), Num(3), Num(0), Str("x"),
                                    Num(PromptCap + 1)>>],
     [kind |-> "array", elems |-> <<Num(0), Str("x"), Num(limitPerCounty + 1)>>],
     [kind |-> "number"]}

AiPayloads ==
    {Payload("Roundup", "Body", u) : u \in UsedChoices}
    \cup {Payload(Undefined, Undefined, [kind |-> "absent"])}

\* ------------------------------------------------------------------------
\* Story writer: main, one action per await
\* ------------------------------------------------------------------------

MaxTicks == 1

\* The hours at which a run may start
Clocks == (2 * WindowHours)..(2 * WindowHours + MaxTicks)

WActive(r) == wpc[r] \in {"loop", "generating", "citing"}

CurGroup(r) == wgroups[r][wg[r]]

ZeroSynthCount == [created |-> 0, skipped |-> 0, failed |-> 0]

\* The end of one turn of the loop over groups: one counter goes up, the
\* loop moves to the next group, and the turn's locals (storyId, chosen) go
\* out of scope.
EndGroup(r, result, counter) ==
    /\ outcome' = [outcome EXCEPT ![r] = Append(@, result)]
    /\ wcount' = [wcount EXCEPT ![r][counter] = @ + 1]
    /\ wg' = [wg EXCEPT ![r] = @ + 1]
    /\ wpc' = [wpc EXCEPT ![r] = "loop"]
    /\ wstory' = [wstory EXCEPT ![r] = 0]
    /\ wchosen' = [wchosen EXCEPT ![r] = <<>>]
    /\ wci' = [wci EXCEPT ![r] = 1]

\* main lines 195-208: the window ends at new Date(), which is now or later
\* than the last clock reading; getDbClient; loadRecentFeedItems
WStart(r, now) ==
    /\ wpc[r] = "idle"
    /\ now >= clock
    /\ clock' = now
    /\ wwin' = [wwin EXCEPT ![r] = [windowStart |-> now - WindowHours,
                                    windowEnd |-> now]]
    /\ wgroups' = [wgroups EXCEPT ![r] = loadRecentFeedItems(now - WindowHours, now)]
    /\ wg' = [wg EXCEPT ![r] = 1]
    /\ wcount' = [wcount EXCEPT ![r] = ZeroSynthCount]
    /\ wpc' = [wpc EXCEPT ![r] = "loop"]
    /\ overlapped' = (overlapped \/ \E q \in Runs \ {r} : WActive(q))
    /\ UNCHANGED <<wstory, wchosen, wci, aiCalls, outcome, offered>>
    /\ UNCHANGED <<dbVars, feedVars, parseVars, webVars, searchVars>>

\* getDbClient or the SELECT throws: main rejects, the process exits with 1
WStartFail(r) ==
    /\ wpc[r] = "idle"
    /\ wpc' = [wpc EXCEPT ![r] = "fatal"]
    /\ UNCHANGED <<clock, wwin, wgroups, wg, wstory, wchosen, wci, wcount,
                   aiCalls, outcome, offered, overlapped>>
    /\ UNCHANGED <<dbVars, feedVars, parseVars, webVars, searchVars>>

\* main lines 210-233: the size gate, storyAlreadyExists, buildPrompt, and the
\* generation request is sent
WCheck(r) ==
    /\ wpc[r] = "loop"
    /\ wg[r] <= Len(wgroups[r])
    /\ LET grp == CurGroup(r)
       IN IF TooSmall(grp.items)
          THEN /\ EndGroup(r, "too_small", "skipped")
               /\ UNCHANGED aiCalls
          ELSE IF storyAlreadyExists(grp.state, grp.county,
                                     wwin[r].windowStart, wwin[r].windowEnd)
          THEN /\ EndGroup(r, "already_exists", "skipped")
               /\ UNCHANGED aiCalls
          ELSE /\ wpc' = [wpc EXCEPT ![r] = "generating"]
               /\ aiCalls' = [aiCalls EXCEPT ![r] =
                                Append(@, [g |-> wg[r], prompt |-> PromptItems(grp.items)])]
               /\ UNCHANGED <<outcome, wcount, wg, wstory, wchosen, wci>>
    /\ UNCHANGED <<clock, wwin, wgroups, offered, overlapped>>
    /\ UNCHANGED <<dbVars, feedVars, parseVars, webVars, searchVars>>

\* storyAlreadyExists throws: it is awaited outside the try, so main rejects
WCheckFail(r) ==
    /\ wpc[r] = "loop"
    /\ wg[r] <= Len(wgroups[r])
    /\ ~TooSmall(CurGroup(r).items)
    /\ wpc' = [wpc EXCEPT ![r] = "fatal"]
    /\ UNCHANGED <<clock, wwin, wgroups, wg, wstory, wchosen, wci, wcount,
                   aiCalls, outcome, offered, overlapped>>
    /\ UNCHANGED <<dbVars, feedVars, parseVars, webVars, searchVars>>

\* callAI throws, JSON.parse throws, or the parsed value is null (parsed.title
\* throws): the catch counts the group as failed
WAiFail(r, resp) ==
    /\ wpc[r] = "generating"
    /\ resp \in AiFailures
    /\ EndGroup(r, "failed", "failed")
    /\ UNCHANGED <<clock, wwin, wgroups, aiCalls, offered, overlapped>>
    /\ UNCHANGED <<dbVars, feedVars, parseVars, webVars, searchVars>>

\* the payload parsed, insertStory throws
WStoryFail(r) ==
    /\ wpc[r] = "generating"
    /\ EndGroup(r, "failed", "failed")
    /\ UNCHANGED <<clock, wwin, wgroups, aiCalls, offered, overlapped>>
    /\ UNCHANGED <<dbVars, feedVars, parseVars, webVars, searchVars>>

StoryRow(id, grp, win, parsed) ==
    [id |-> id, state |-> grp.state, county |-> grp.county, story_type |-> "roundup",
     title |-> IF OrEmpty(parsed.title) # "" THEN parsed.title
               ELSE grp.county \o " County Roundup",
     body_markdown |-> OrEmpty(parsed.body_markdown),
     time_window_start |-> win.windowStart, time_window_end |-> win.windowEnd,
     prompt_version |-> "v1", status |-> "published"]

\* main lines 235-254: the payload parsed; insertStory; insertStorySources
\* builds usedSet and chosen (a used_source_indexes without map throws)
WStory(r, parsed) ==
    /\ wpc[r] = "generating"
    /\ parsed \in AiPayloads
    /\ LET grp == CurGroup(r)
           id == Cardinality(stories) + 1
           used == parsed.used_source_indexes
           chosen == Chosen(grp.items, UsedElems(used))
       IN /\ stories' = stories \cup {StoryRow(id, grp, wwin[r], parsed)}
          /\ story_sources' = Append(story_sources, <<>>)
          /\ offered' = Append(offered, [run |-> r, g |-> wg[r],
                                         prompt |-> PromptItems(grp.items),
                                         used |-> used])
          /\ IF used.kind = "number"
             THEN EndGroup(r, "failed", "failed")
             ELSE IF chosen = <<>>
             THEN EndGroup(r, "created", "created")
             ELSE /\ wstory' = [wstory EXCEPT ![r] = id]
                  /\ wchosen' = [wchosen EXCEPT ![r] = chosen]
                  /\ wci' = [wci EXCEPT ![r] = 1]
                  /\ wpc' = [wpc EXCEPT ![r] = "citing"]
                  /\ UNCHANGED <<outcome, wcount, wg>>
    /\ UNCHANGED <<clock, wwin, wgroups, aiCalls, overlapped>>
    /\ UNCHANGED <<schema, sources, feed_items>>
    /\ UNCHANGED <<feedVars, parseVars, webVars, searchVars>>

\* insertStorySources lines 179-188: one INSERT INTO story_sources; after the
\* last one main counts the group as created
WCite(r) ==
    /\ wpc[r] = "citing"
    /\ story_sources' = [story_sources EXCEPT ![wstory[r]] =
                            Append(@, CitationRow(wstory[r], wchosen[r][wci[r]]))]
    /\ IF wci[r] = Len(wchosen[r])
       THEN EndGroup(r, "created", "created")
       ELSE /\ wci' = [wci EXCEPT ![r] = @ + 1]
            /\ UNCHANGED <<outcome, wcount, wg, wpc, wstory, wchosen>>
    /\ UNCHANGED <<clock, wwin, wgroups, aiCalls, offered, overlapped>>
    /\ UNCHANGED <<schema, sources, feed_items, stories>>
    /\ UNCHANGED <<feedVars, parseVars, webVars, searchVars>>

\* an INSERT INTO story_sources throws: the catch counts the group as failed
WCiteFail(r) ==
    /\ wpc[r] = "citing"
    /\ EndGroup(r, "failed", "failed")
    /\ UNCHANGED <<clock, wwin, wgroups, aiCalls, offered, overlapped>>
    /\ UNCHANGED <<dbVars, feedVars, parseVars, webVars, searchVars>>

\* main lines 264-267: the summary, client.end()
WFinish(r) ==
    /\ wpc[r] = "loop"
    /\ wg[r] > Len(wgroups[r])
    /\ wpc' = [wpc EXCEPT ![r] = "done"]
    /\ UNCHANGED <<clock, wwin, wgroups, wg, wstory, wchosen, wci, wcount,
                   aiCalls, outcome, offered, overlapped>>
    /\ UNCHANGED <<dbVars, feedVars, parseVars, webVars, searchVars>>

\* ------------------------------------------------------------------------
\* Specifications

\* ------------------------------------------------------------------------

FeedIdle ==
    /\ fpc = [r \in Runs |-> "idle"]
    /\ fsrc = [r \in Runs |-> 1]
    /\ fcand = [r \in Runs |-> 1]
    /\ fres = [r \in Runs |-> NoFeed]
    /\ fitem = [r \in Runs |-> 1]
    /\ fsid = [r \in Runs |-> 0]
    /\ fcount = [r \in Runs |-> ZeroFeedCount]
    /\ probeLog = [r \in Runs |-> <<>>]
    /\ fpace = [r \in Runs |-> "none"]

SynthIdle ==
    /\ clock = 2 * WindowHours
    /\ wpc = [r \in Runs |-> "idle"]
    /\ wwin = [r \in Runs |-> [windowStart |-> 0, windowEnd |-> 0]]
    /\ wgroups = [r \in Runs |-> <<>>]
    /\ wg = [r \in Runs |-> 1]
    /\ wstory = [r \in Runs |-> 0]
    /\ wchosen = [r \in Runs |-> <<>>]
    /\ wci = [r \in Runs |-> 1]
    /\ wcount = [r \in Runs |-> [created |-> 0, skipped |-> 0, failed |-> 0]]
    /\ aiCalls = [r \in Runs |-> <<>>]
    /\ outcome = [r \in Runs |-> <<>>]
    /\ offered = <<>>
    /\ overlapped = FALSE

ParseIdle ==
    /\ entry = <<>>
    /\ norm = <<>>
    /\ csrc = SrcA
    /\ cands = <<>>

WebIdle ==
    /\ pageStories = {}
    /\ pageSearch = {}
    /\ feedLimit = 0
    /\ feed = <<>>

SearchIdle ==
    /\ dest = [cols |-> {}, unique |-> {}, notnull |-> {}]
    /\ trows = <<>>
    /\ minKeywordLen = 4
    /\ spc = "idle"
    /\ sruns = 0
    /\ swin = [start |-> 0, end |-> 0]
    /\ sreg = 1
    /\ sqry = 1
    /\ sarticles = <<>>
    /\ sart = 1
    /\ stotals = [totalResults |-> 0, totalWrites |-> 0, totalRowErrors |-> 0]
    /\ requests = <<>>
    /\ written = {}
    /\ dbErrors = 0

\* Feed ingest starts on an empty database
Init ==
    /\ schema \in Schemas
    /\ sources = {}
    /\ feed_items = {}
    /\ stories = {}
    /\ story_sources = <<>>
    /\ config \in Configs
    /\ FeedIdle
    /\ SynthIdle
    /\ ParseIdle
    /\ SearchIdle
    /\ WebIdle

Next ==
    \E r \in Runs :
        \/ FStart(r)
        \/ FBegin(r)
        \/ \E out \in ProbeFailures \cup Docs : FProbe(r, out)
        \/ FNotFound(r)
        \/ FUpsert(r)
        \/ FInsert(r)
        \/ FSourceDone(r)
        \/ FFinish(r)

Spec == Init /\ [][Next]_vars

\* ------------------------------------------------------------------------
\* The database the story writer starts on: two enabled sources, one per
\* county, and a disabled one; the feed items ingest has stored for them.
\* ------------------------------------------------------------------------

Extra == 1

SynthSources ==
    {[id |-> 1, state |-> "FL", county |-> "Bay", source_name |-> "WJHG",
      website_url |-> "", rss_url |-> "https://b.org/rss", enabled |-> TRUE],
     [id |-> 2, state |-> "FL", county |-> "Gulf", source_name |-> "Gulf Times",
      website_url |-> "", rss_url |-> "https://e.us/rss", enabled |-> TRUE],
     [id |-> 3, state |-> "FL", county |-> "Bay", source_name |-> "Off",
      website_url |-> "", rss_url |-> "https://d.io/feed", enabled |-> FALSE]}

\* Item i: a third have no time, the others fall inside every window of the model
PublishedAt(i) ==
    IF i % 3 = 0 THEN NULL ELSE <<2 * WindowHours - (i % 5)>>

StoredItem(i, sourceId) ==
    FeedItemRow(i, sourceId,
                [title |-> "Item " \o ToString(i),
                 link |-> "https://n.example/" \o ToString(i),
                 pubDate |-> "", summary |-> "s"])

\* nBay items of source 1, then nGulf items of source 2, one of source 3
ItemTable(nBay, nGulf) ==
    {[StoredItem(i, IF i <= nBay THEN 1 ELSE 2) EXCEPT !.published_at = PublishedAt(i)]
        : i \in 1..(nBay + nGulf)}
    \cup {StoredItem(nBay + nGulf + 1, 3)}

\* In every shape at most one county has enough items for a roundup
Shapes ==
    {<<MinGroupSize - 1, MinGroupSize>>,
     <<FallbackCount + Extra, MinGroupSize - 1>>,
     <<PromptCap + Extra, 0>>}

InitSynth ==
    /\ schema = "full"
    /\ sources = SynthSources
    /\ \E shape \in Shapes : feed_items = ItemTable(shape[1], shape[2])
    /\ stories = {}
    /\ story_sources = <<>>
    /\ config = ConfigDedup
    /\ FeedIdle
    /\ SynthIdle
    /\ ParseIdle
    /\ SearchIdle
    /\ WebIdle

NextSynth ==
    \E r \in Runs :
        \/ \E now \in Clocks : WStart(r, now)
        \/ WStartFail(r)
        \/ WCheck(r)
        \/ WCheckFail(r)
        \/ \E resp \in AiFailures : WAiFail(r, resp)
        \/ WStoryFail(r)
        \/ \E parsed \in AiPayloads : WStory(r, parsed)
        \/ WCite(r)
        \/ WCiteFail(r)
        \/ WFinish(r)

SpecSynth == InitSynth /\ [][NextSynth]_vars

\* ------------------------------------------------------------------------
\* The normalizers on one Atom entry
\* ------------------------------------------------------------------------

MaxLinks == 3

LinkRels == {"alternate", "self", "enclosure", Undefined}
LinkHrefs == {"https://n.example/story", "https://n.example/feed.xml", Undefined}
Links == [rel : LinkRels, href : LinkHrefs]

RECURSIVE SeqsUpTo(_, _)
SeqsUpTo(S, n) ==
    IF n = 0 THEN {<<>>}
    ELSE LET shorter == SeqsUpTo(S, n - 1)
         IN shorter \cup {Append(q, x) : q \in {t \in shorter : Len(t) = n - 1}, x \in S}

AtomDoc(link) ==
    [kind |-> "atom", entry |->
      << [title |-> "a", updated |-> "2026-11-02T11:00:00Z", published |-> Undefined,
          summary |-> Undefined, link |-> link] >>]

InitParse ==
    /\ schema = "full"
    /\ sources = {}
    /\ feed_items = {}
    /\ stories = {}
    /\ story_sources = <<>>
    /\ config = ConfigProbe
    /\ FeedIdle
    /\ SynthIdle
    /\ entry \in SeqsUpTo(Links, MaxLinks)
    /\ norm = <<>>
    /\ csrc = SrcA
    /\ cands = <<>>
    /\ SearchIdle
    /\ WebIdle

\* parseRss and normalizeRssItems applied to a feed holding the entry
Normalize ==
    /\ norm = <<>>
    /\ norm' = <<parseRss(AtomDoc(entry))[1].link, AtomLinkNormalize(entry)>>
    /\ UNCHANGED <<entry, csrc, cands, dbVars, feedVars, synthVars, searchVars, webVars>>

NextParse == Normalize

SpecParse == InitParse /\ [][NextParse]_vars

\* ------------------------------------------------------------------------
\* buildCandidateFeeds on one catalog source
\* ------------------------------------------------------------------------

\* rss_url and website_url as a catalog may hold them: absent, blank, padded
\* with spaces, equal to a derived path of the site, of another site
RssUrls ==
    {Undefined, "", "  ", "https://a.com/feed", " https://a.com/rss.xml ",
     "https://b.org/rss", "https://a.com/RSS.aspx", "https://a.com/feed/"}
WebsiteUrls ==
    {Undefined, "", " https://a.com ", "https://a.com", "https://a.com/news",
     "http://a.com", "a.com", "not a url"}

InitCand ==
    /\ schema = "full"
    /\ sources = {}
    /\ feed_items = {}
    /\ stories = {}
    /\ story_sources = <<>>
    /\ config = ConfigProbe
    /\ FeedIdle
    /\ SynthIdle
    /\ entry = <<>>
    /\ norm = <<>>
    /\ \E rss \in RssUrls : \E web \in WebsiteUrls :
          csrc = [source_name |-> "Bay County", enabled |-> "true",
                  rss_url |-> rss, website_url |-> web]
    /\ cands = <<>>
    /\ SearchIdle
    /\ WebIdle

\* resolveFeedUrl line 175: const candidates = buildCandidateFeeds(src)
Candidates ==
    /\ cands = <<>>
    /\ cands' = <<buildCandidateFeeds(csrc)>>
    /\ UNCHANGED <<entry, norm, csrc, dbVars, feedVars, synthVars, searchVars, webVars>>

NextCand == Candidates

SpecCand == InitCand /\ [][NextCand]_vars

\* ------------------------------------------------------------------------
\* Search ingest (apps/worker/search_ingest.js): values and pure functions
\* ------------------------------------------------------------------------

LOOKBACK_HOURS == 12
MAX_RECORDS == 50
MIN_KEYWORD_LEN == 4

\* A JavaScript value that may be null or undefined is <<>>, a present one <<v>>
Some(v) == <<v>>

\* !v for a text that may be absent: null, undefined and "" are falsy
Falsy(v) == v = <<>> \/ v = <<"">>

\* a || b
OrElse(a, b) == IF Falsy(a) THEN b ELSE a

\* The first and the twelfth entry of REGIONS, with their two queries each
REGIONS ==
    << [tag |-> "GDELT FL/Bay", state |-> "FL",
        queries |-> <<"Bay County Florida", "\"Bay County\" \"Florida\"">>],
       [tag |-> "GDELT AL/Mobile", state |-> "AL",
        queries |-> <<"Mobile County Alabama", "\"Mobile County\" \"Alabama\"">>] >>

\* MIN_KEYWORD_LEN as the environment may set it: the default, one that cuts
\* the shortest query, one that cuts every query
MinKeywordLens == {MIN_KEYWORD_LEN, 20, 26}

pad2(n) == IF n < 10 THEN "0" \o ToString(n) ELSE ToString(n)

\* Hour t counts from 2026-11-01T00:00:00Z; every time of the model lies in
\* November 2026
gdeltUtcStamp(t) ==
    "2026" \o pad2(11) \o pad2(1 + (t \div 24)) \o pad2(t % 24) \o pad2(0) \o pad2(0)

\* A variant of the pre-flight that lets every non-empty query through
isValidKeywordAny(q) == q # ""

isValidKeyword(q) == q # "" /\ Len(trim(q)) >= minKeywordLen

DigitOf(c) ==
    CASE c = "0" -> 0 [] c = "1" -> 1 [] c = "2" -> 2 [] c = "3" -> 3 [] c = "4" -> 4
      [] c = "5" -> 5 [] c = "6" -> 6 [] c = "7" -> 7 [] c = "8" -> 8 [] c = "9" -> 9
      [] OTHER -> -1

\* Number(text) of a slice of digits; -1 stands for NaN
RECURSIVE NumberOf(_)
NumberOf(s) ==
    IF s = "" THEN 0
    ELSE LET front == NumberOf(SubSeq(s, 1, Len(s) - 1))
             last == DigitOf(SubSeq(s, Len(s), Len(s)))
         IN IF front < 0 \/ last < 0 THEN -1 ELSE 10 * front + last

\* parseGdeltSeenDate: <<hour>> of a 14-digit stamp of November 2026, else null
parseGdeltSeenDate(seendate) ==
    IF Falsy(seendate) \/ Len(seendate[1]) < 14 THEN NULL
    ELSE LET s == seendate[1]
             parts == <<NumberOf(SubSeq(s, 1, 4)), NumberOf(SubSeq(s, 5, 6)),
                        NumberOf(SubSeq(s, 7, 8)), NumberOf(SubSeq(s, 9, 10)),
                        NumberOf(SubSeq(s, 11, 12)), NumberOf(SubSeq(s, 13, 14))>>
         IN IF \E i \in 1..6 : parts[i] < 0 THEN NULL
            ELSE <<(parts[3] - 1) * 24 + parts[4]>>

\* buildGdeltUrl: the parameters of the request
buildGdeltUrl(query, startdatetime, enddatetime, maxrecords) ==
    [query |-> query, mode |-> "ArtList", format |-> "json", sort |-> "datedesc",
     maxrecords |-> maxrecords, startdatetime |-> startdatetime,
     enddatetime |-> enddatetime]

\* new URL(url).hostname on the URLs of the model's articles; null when it throws
UrlHostname(url) ==
    CASE url = <<"https://n.com/storm">> -> <<"n.com">>
      [] url = <<"https://wire.org/bridge">> -> <<"wire.org">>
      [] OTHER -> NULL

ArtStorm ==
    [url |-> <<"https://n.com/storm">>, urlsource |-> <<>>, sourceurl |-> <<>>,
     title |-> <<"Storm">>, seendate |-> <<"20261102T100000Z">>,
     socialimage |-> <<>>, image |-> <<>>, summary |-> <<>>, description |-> <<"Wind">>]
ArtBridge ==
    [url |-> <<"">>, urlsource |-> <<"https://wire.org/bridge">>, sourceurl |-> <<>>,
     title |-> <<"Bridge">>, seendate |-> <<"20261102110000">>,
     socialimage |-> <<"https://wire.org/b.png">>, image |-> <<>>,
     summary |-> <<>>, description |-> <<>>]
ArtBare ==
    [url |-> <<>>, urlsource |-> <<>>, sourceurl |-> <<>>,
     title |-> <<>>, seendate |-> <<"2026">>,
     socialimage |-> <<>>, image |-> <<>>, summary |-> <<>>, description |-> <<>>]

\* What one fetchJson can come to: a non-2xx status, a network error, a body
\* that is not JSON, or a JSON value with or without an articles array
SearchFailures ==
    {[kind |-> "http_status"], [kind |-> "network"], [kind |-> "bad_json"]}
SearchBodies ==
    {[kind |-> "json", articles |-> <<ArtBare, ArtStorm, ArtBridge>>],
     [kind |-> "json_without_articles"]}

\* Array.isArray(json?.articles) ? json.articles : []
ArticlesOf(json) == IF json.kind = "json" THEN json.articles ELSE <<>>

\* The columns buildRowForTable knows, and the value it gives each
KnownColumns ==
    {"state", "state_code", "state_abbr", "url", "link", "canonical_url", "source_url",
     "title", "headline", "provider", "source_name", "origin", "region_tag", "region",
     "query", "domain", "host", "published_at", "published", "pub_date",
     "fetched_at", "ingested_at", "created_at", "summary", "description", "excerpt",
     "image", "image_url", "thumbnail"}

ColumnValue(c, regionTag, state, query, article, fetchedAt) ==
    LET url == OrElse(article.url, OrElse(article.urlsource,
                                          OrElse(article.sourceurl, NULL)))
        title == OrElse(article.title, NULL)
        image == OrElse(article.socialimage, OrElse(article.image, NULL))
        summary == OrElse(article.summary, OrElse(article.description, NULL))
        domain == IF Falsy(url) THEN NULL ELSE UrlHostname(url)
    IN CASE c \in {"state", "state_code", "state_abbr"} -> Some(state)
         [] c \in {"url", "link", "canonical_url", "source_url"} -> url
         [] c \in {"title", "headline"} -> title
         [] c \in {"provider", "source_name", "origin"} -> Some("GDELT")
         [] c \in {"region_tag", "region"} -> Some(regionTag)
         [] c = "query" -> Some(query)
         [] c \in {"domain", "host"} -> domain
         [] c \in {"published_at", "published", "pub_date"} ->
                parseGdeltSeenDate(article.seendate)
         [] c \in {"fetched_at", "ingested_at", "created_at"} -> Some(fetchedAt)
         [] c \in {"summary", "description", "excerpt"} -> summary
         [] c \in {"image", "image_url", "thumbnail"} -> image

\* buildRowForTable: one field per known column of the table
buildRowForTable(columns, regionTag, state, query, article, fetchedAt) ==
    [c \in columns \cap KnownColumns |->
        ColumnValue(c, regionTag, state, query, article, fetchedAt)]

\* null is the empty text here: the result is used as a column name
NoColumn == ""

KeyCandidates == <<"url", "link", "canonical_url", "guid", "external_id", "source_url">>

pickUniqueKeyColumn(columns) ==
    IF \E i \in DOMAIN KeyCandidates : KeyCandidates[i] \in columns
    THEN KeyCandidates[CHOOSE i \in DOMAIN KeyCandidates :
                          /\ KeyCandidates[i] \in columns
                          /\ \A j \in 1..(i - 1) : KeyCandidates[j] \notin columns]
    ELSE NoColumn

\* buildInsertSql: the statement, as the parts that decide what it does
buildInsertSql(columnsToInsert, conflictColumn, updateColumns) ==
    [insert |-> columnsToInsert,
     onConflict |-> IF conflictColumn # NoColumn /\ updateColumns # {}
                    THEN conflictColumn ELSE NoColumn,
     update |-> IF conflictColumn # NoColumn /\ updateColumns # {}
                THEN updateColumns ELSE {}]

\* writeOne up to the statement: a local rejection, or the statement and its row
writeOne(tableColumns, conflictColumn, regionTag, state, query, article, fetchedAt) ==
    LET row == buildRowForTable(tableColumns, regionTag, state, query, article, fetchedAt)
        keys == DOMAIN row
    IN IF keys = {} THEN [didWrite |-> FALSE, reason |-> "no_matching_columns"]
       ELSE IF "state" \in tableColumns /\ Falsy(row["state"])
       THEN [didWrite |-> FALSE, reason |-> "missing_state"]
       ELSE IF conflictColumn # NoColumn
               /\ (conflictColumn \notin keys \/ Falsy(row[conflictColumn]))
       THEN [didWrite |-> FALSE, reason |-> "missing_conflict_value"]
       ELSE [didWrite |-> TRUE, row |-> row,
             sql |-> buildInsertSql(keys, conflictColumn,
                                    IF conflictColumn # NoColumn
                                    THEN keys \ {conflictColumn} ELSE {})]

\* ------------------------------------------------------------------------
\* The destination table of search ingest
\* ------------------------------------------------------------------------

\* A destination: its columns, those under a unique constraint, and those
\* declared NOT NULL without a default
DestKeyed ==
    [cols |-> {"id", "state", "url", "title", "query", "published_at"},
     unique |-> {"url"}, notnull |-> {"state", "url"}]
DestPlain ==
    [cols |-> {"id", "state", "title", "summary"}, unique |-> {}, notnull |-> {"state"}]
DestNoIndex ==
    [cols |-> {"id", "link", "title"}, unique |-> {}, notnull |-> {}]
\* the stories table of the schema
DestStories ==
    [cols |-> {"id", "state", "county", "region", "story_type", "title", "dek",
               "body_markdown", "bullets_json", "time_window_start", "time_window_end",
               "model_name", "prompt_version", "status", "created_at"},
     unique |-> {},
     notnull |-> {"state", "county", "title", "body_markdown", "time_window_start",
                  "time_window_end"}]
DestForeign == [cols |-> {"id", "body"}, unique |-> {}, notnull |-> {}]
DestMissing == [cols |-> {}, unique |-> {}, notnull |-> {}]
\* a table that holds the key and nothing else the adapter knows
DestKeyOnly == [cols |-> {"id", "url"}, unique |-> {"url"}, notnull |-> {"url"}]
\* a table whose only key candidate is guid
DestGuid == [cols |-> {"id", "guid", "title"}, unique |-> {"guid"}, notnull |-> {"guid"}]
Destinations ==
    {DestKeyed, DestPlain, DestNoIndex, DestStories, DestForeign, DestMissing, DestKeyOnly,
     DestGuid}

\* Postgres rejects the statement: a NOT NULL column is left out or null, the
\* ON CONFLICT target has no unique index, or another unique column collides
StatementFails(rows, row, sql) ==
    \/ \E c \in dest.notnull : c \notin DOMAIN row \/ row[c] = <<>>
    \/ sql.onConflict # NoColumn /\ sql.onConflict \notin dest.unique
    \/ \E c \in (dest.unique \cap DOMAIN row) \ {sql.onConflict} :
          /\ row[c] # <<>>
          /\ \E i \in DOMAIN rows : rows[i][c] = row[c]

\* The table after the statement: INSERT, with ON CONFLICT (key) DO UPDATE SET
\* every other inserted column when the statement carries it
StatementRows(rows, row, sql) ==
    IF sql.onConflict # NoColumn
       /\ \E i \in DOMAIN rows : rows[i][sql.onConflict] = row[sql.onConflict]
    THEN [i \in DOMAIN rows |->
            IF rows[i][sql.onConflict] = row[sql.onConflict]
            THEN [c \in DOMAIN rows[i] |-> IF c \in sql.update THEN row[c] ELSE rows[i][c]]
            ELSE rows[i]]
    ELSE Append(rows, row)

\* ------------------------------------------------------------------------
\* Search ingest: run, one action per await
\* ------------------------------------------------------------------------

MaxRowErrors == 1

CurRegion == REGIONS[sreg]

\* const query = String(rawQuery || '').trim()
CurQuery == trim(CurRegion.queries[sqry])

conflictColumn == pickUniqueKeyColumn(dest.cols)

ZeroTotals == [totalResults |-> 0, totalWrites |-> 0, totalRowErrors |-> 0]

\* The inner loop moves to the next query, after the last one to the next region
NextQuery ==
    IF sqry < Len(CurRegion.queries)
    THEN /\ sqry' = sqry + 1
         /\ UNCHANGED sreg
    ELSE /\ sreg' = sreg + 1
         /\ sqry' = 1

\* A variant of getTableColumns that returns the empty set without throwing
AfterColumnsGoOn(columns) == "loop"

\* getTableColumns lines 135-137 and run().catch: no rows for the table is
\* an Error that rejects run, and the process exits with 1
AfterColumns(columns) == IF columns = {} THEN "fatal" ELSE "loop"

\* run lines 269-294: the window, getTableColumns (which throws when the table
\* has no columns: the process exits with 1), pickUniqueKeyColumn
SStart(now) ==
    /\ spc = "idle"
    /\ now >= swin.end
    /\ sruns' = sruns + 1
    /\ swin' = [start |-> now - LOOKBACK_HOURS, end |-> now]
    /\ requests' = <<>>
    /\ stotals' = ZeroTotals
    /\ sreg' = 1
    /\ sqry' = 1
    /\ sarticles' = <<>>
    /\ sart' = 1
    /\ spc' = AfterColumns(dest.cols)
    /\ UNCHANGED <<dest, trows, minKeywordLen, written, dbErrors>>
    /\ UNCHANGED <<dbVars, feedVars, synthVars, parseVars, webVars>>

\* run lines 296-316: the keyword pre-flight, buildGdeltUrl, and the request
\* is sent
SQuery ==
    /\ spc = "loop"
    /\ sreg <= Len(REGIONS)
    /\ IF ~isValidKeyword(CurQuery)
       THEN /\ NextQuery
            /\ UNCHANGED <<spc, requests>>
       ELSE /\ requests' = Append(requests,
                  [tag |-> CurRegion.tag,
                   url |-> buildGdeltUrl(CurQuery, gdeltUtcStamp(swin.start),
                                         gdeltUtcStamp(swin.end), MAX_RECORDS),
                   outcome |-> "pending"])
            /\ spc' = "waiting"
            /\ UNCHANGED <<sreg, sqry>>
    /\ UNCHANGED <<dest, trows, minKeywordLen, sruns, swin, sarticles, sart, stotals,
                   written, dbErrors>>
    /\ UNCHANGED <<dbVars, feedVars, synthVars, parseVars, webVars>>

\* A variant of the catch that gives the run up
AfterQueryErrorAbort == "fatal"

\* run lines 347-349: the catch logs, the loop goes on
AfterQueryError == "loop"

\* fetchJson throws (fetch rejects, a non-2xx status, res.json() rejects)
SFetchFail(resp) ==
    /\ spc = "waiting"
    /\ resp \in SearchFailures
    /\ spc' = AfterQueryError
    /\ requests' = [requests EXCEPT ![Len(requests)].outcome = resp.kind]
    /\ NextQuery
    /\ UNCHANGED <<dest, trows, minKeywordLen, sruns, swin, sarticles, sart, stotals,
                   written, dbErrors>>
    /\ UNCHANGED <<dbVars, feedVars, synthVars, parseVars, webVars>>

\* run lines 316-320: the body parsed
SFetchOk(json) ==
    /\ spc = "waiting"
    /\ json \in SearchBodies
    /\ sarticles' = ArticlesOf(json)
    /\ sart' = 1
    /\ spc' = "writing"
    /\ requests' = [requests EXCEPT ![Len(requests)].outcome = "ok"]
    /\ UNCHANGED <<dest, trows, minKeywordLen, sruns, swin, sreg, sqry, stotals,
                   written, dbErrors>>
    /\ UNCHANGED <<dbVars, feedVars, synthVars, parseVars, webVars>>

\* run lines 322-343: writeOne for one article.  dbUp is FALSE when the
\* database fails for a reason of its own (connection lost).
SWrite(dbUp) ==
    /\ spc = "writing"
    /\ sart <= Len(sarticles)
    /\ dbUp \/ dbErrors < MaxRowErrors
    /\ LET a == sarticles[sart]
           w == writeOne(dest.cols, conflictColumn, CurRegion.tag, CurRegion.state,
                         CurQuery, a, swin.end)
       IN IF ~w.didWrite
          THEN /\ dbUp
               /\ UNCHANGED <<trows, stotals, written, dbErrors>>
          ELSE IF ~dbUp \/ StatementFails(trows, w.row, w.sql)
          THEN /\ stotals' = [stotals EXCEPT !.totalRowErrors = @ + 1]
               /\ dbErrors' = IF dbUp THEN dbErrors ELSE dbErrors + 1
               /\ UNCHANGED <<trows, written>>
          ELSE /\ trows' = StatementRows(trows, w.row, w.sql)
               /\ stotals' = [stotals EXCEPT !.totalWrites = @ + 1]
               /\ written' = written \cup {[tag |-> CurRegion.tag, query |-> CurQuery,
                                            win |-> swin, article |-> a]}
               /\ UNCHANGED dbErrors
    /\ sart' = sart + 1
    /\ UNCHANGED <<dest, minKeywordLen, spc, sruns, swin, sreg, sqry, sarticles, requests>>
    /\ UNCHANGED <<dbVars, feedVars, synthVars, parseVars, webVars>>

\* run lines 345-346: totalResults += results, the next query
SQueryDone ==
    /\ spc = "writing"
    /\ sart > Len(sarticles)
    /\ stotals' = [stotals EXCEPT !.totalResults = @ + Len(sarticles)]
    /\ spc' = "loop"
    /\ NextQuery
    /\ UNCHANGED <<dest, trows, minKeywordLen, sruns, swin, sarticles, sart, requests,
                   written, dbErrors>>
    /\ UNCHANGED <<dbVars, feedVars, synthVars, parseVars, webVars>>

\* run lines 353-356: the done summary
SFinish ==
    /\ spc = "loop"
    /\ sreg > Len(REGIONS)
    /\ spc' = "done"
    /\ UNCHANGED <<dest, trows, minKeywordLen, sruns, swin, sreg, sqry, sarticles, sart,
                   stotals, requests, written, dbErrors>>
    /\ UNCHANGED <<dbVars, feedVars, synthVars, parseVars, webVars>>

\* run().then / .catch: the process has exited, and the scheduler starts the
\* worker again, once per run of the model
SAgain ==
    /\ spc \in {"done", "fatal"}
    /\ sruns < Cardinality(Runs)
    /\ spc' = "idle"
    /\ UNCHANGED <<dest, trows, minKeywordLen, sruns, swin, sreg, sqry, sarticles, sart,
                   stotals, requests, written, dbErrors>>
    /\ UNCHANGED <<dbVars, feedVars, synthVars, parseVars, webVars>>

\* Search ingest starts on an empty destination
InitSearch ==
    /\ schema = "full"
    /\ sources = {}
    /\ feed_items = {}
    /\ stories = {}
    /\ story_sources = <<>>
    /\ config = ConfigProbe
    /\ FeedIdle
    /\ SynthIdle
    /\ ParseIdle
    /\ WebIdle
    /\ dest \in Destinations
    /\ minKeywordLen \in MinKeywordLens
    /\ trows = <<>>
    /\ spc = "idle"
    /\ sruns = 0
    /\ swin = [start |-> 0, end |-> 0]
    /\ sreg = 1
    /\ sqry = 1
    /\ sarticles = <<>>
    /\ sart = 1
    /\ stotals = ZeroTotals
    /\ requests = <<>>
    /\ written = {}
    /\ dbErrors = 0

NextSearch ==
    \/ \E now \in Clocks : SStart(now)
    \/ SQuery
    \/ \E resp \in SearchFailures : SFetchFail(resp)
    \/ \E json \in SearchBodies : SFetchOk(json)
    \/ \E dbUp \in BOOLEAN : SWrite(dbUp)
    \/ SQueryDone
    \/ SFinish

\* One run of the worker
SpecSearch == InitSearch /\ [][NextSearch]_vars

\* The worker run again by the scheduler, against an index that answers or
\* refuses and a database that stays up
NextRerun ==
    \/ SAgain
    \/ \E now \in Clocks : SStart(now)
    \/ SQuery
    \/ SFetchFail([kind |-> "http_status"])
    \/ \E json \in SearchBodies : SFetchOk(json)
    \/ SWrite(TRUE)
    \/ SQueryDone
    \/ SFinish

SpecRerun == InitSearch /\ [][NextRerun]_vars

\* The steps the worker takes by itself are taken; the search index answers
\* or not, and the worker is started or not
SpecSearchLive ==
    /\ SpecSearch
    /\ WF_vars(SQuery)
    /\ WF_vars(\E dbUp \in BOOLEAN : SWrite(dbUp))
    /\ WF_vars(SQueryDone)
    /\ WF_vars(SFinish)


\* ------------------------------------------------------------------------
\* Feed ingest: properties
\* ------------------------------------------------------------------------

Stored(sourceId, it) ==
    \E row \in feed_items :
        row.source_id = sourceId /\ row.title = it.title /\ row.link = it.link

\* Run r takes the insertFeedItem turn for the item at fitem[r]
InsertStep(r) ==
    /\ fpc[r] = "inserting"
    /\ fitem[r] <= Len(fres[r].items)
    /\ fitem'[r] = fitem[r] + 1
    /\ ~ItemDropped(fres[r].items[fitem[r]])

\* The items run r has already handed to insertFeedItem for its current source
Handed(r) ==
    IF fpc[r] # "inserting" THEN {}
    ELSE {fres[r].items[j] : j \in {k \in 1..(fitem[r] - 1) :
                                      ~ItemDropped(fres[r].items[k])}}

C1_OneRowPerDraft ==
    \A a, b \in feed_items :
        (a.source_id = b.source_id /\ a.title = b.title /\ a.link = b.link) => a = b

C1_ReinsertIsNoOp ==
    \A r \in Runs :
        (InsertStep(r) /\ Stored(fsid[r], fres[r].items[fitem[r]]))
        => /\ feed_items' = feed_items
           /\ fpc'[r] = "inserting"
           /\ fcount'[r] = [fcount[r] EXCEPT !.attempted = @ + 1]

\* C1: feed ingest is idempotent per source.  feed_items never holds two rows
\* with the same (source id, title, link), and an insertFeedItem call for a
\* draft already stored under that source leaves feed_items as it is and does
\* not fail: the run stays in its item loop and counts no failure.
C1_FeedIngestIdempotent == [](C1_OneRowPerDraft) /\ [][C1_ReinsertIsNoOp]_vars

\* One run has finished after storing the items of a feed under a source; the
\* other has handed one of the same drafts to insertFeedItem under the same
\* source, and the row is still alone.
C1_Witness ==
    \E r \in Runs, q \in Runs :
        /\ fpc[q] = "done" /\ fres[q].feedUrl # "" /\ fsid[q] = fsid[r]
        /\ fpc[r] = "inserting"
        /\ \E it \in Handed(r) :
              /\ it \in Range(fres[q].items)
              /\ Cardinality({row \in feed_items : row.source_id = fsid[r]
                                /\ row.title = it.title /\ row.link = it.link}) = 1

\* C4: item dedup under overlap.  Whatever the interleaving of two runs'
\* insertFeedItem calls, once a run has handed a draft to insertFeedItem there
\* is exactly one feed_items row for its (source id, content hash), and no run
\* counts a failure on a schema where the source upsert itself succeeds.
C4_OneRowUnderOverlap ==
    \A r \in Runs :
        /\ \A it \in Handed(r) :
              Cardinality({row \in feed_items : row.source_id = fsid[r]
                 /\ row.content_hash = hashItem(it.title, it.link)}) = 1
        /\ (schema = "full" => fcount[r].failed = 0)

\* Both runs are inside the item loop of the same source at the same time and
\* each has handed over a draft with the same content hash.
C4_Witness ==
    /\ fpc[1] = "inserting" /\ fpc[2] = "inserting"
    /\ fsid[1] = fsid[2]
    /\ fitem[1] <= Len(fres[1].items) /\ fitem[2] <= Len(fres[2].items)
    /\ \E a \in Handed(1), b \in Handed(2) :
          hashItem(a.title, a.link) = hashItem(b.title, b.link)

InResolve(r) == fpc[r] \in {"resolving", "resolved", "inserting"}

\* C8: resolver order.  The fetches issued for a source are the candidate
\* list taken from its head, one fetch per candidate; while the resolver is
\* still probing, every fetched candidate parsed into no item; once it has
\* returned a feed, that feed is the last candidate fetched, it is the only
\* one that parsed into items, the items returned are its items, and no fetch
\* follows it.
C8_ResolverOrder ==
    \A r \in Runs : InResolve(r) =>
        LET log == probeLog[r]
            c == Cands(r)
        IN /\ Len(log) <= Len(c)
           /\ \A i \in 1..Len(log) : log[i].url = c[i]
           /\ \A i \in 1..(Len(log) - 1) : log[i].n = 0
           /\ fpc[r] = "resolving" =>
                 /\ fcand[r] = Len(log) + 1
                 /\ \A i \in 1..Len(log) : log[i].n = 0
           /\ fpc[r] \in {"resolved", "inserting"} =>
                 /\ log # <<>>
                 /\ log[Len(log)].n > 0
                 /\ fres[r].feedUrl = log[Len(log)].url
                 /\ Len(fres[r].items) = log[Len(log)].n

\* Of three or more candidates the first failed, the second parsed into
\* items and was returned, and the third was not fetched.
C8_Witness ==
    \E r \in Runs :
        /\ fpc[r] = "resolved"
        /\ Len(Cands(r)) >= 3
        /\ Len(probeLog[r]) = 2
        /\ fres[r].feedUrl = Cands(r)[2]

\* Run r takes a probe turn whose document parses into no item (or throws)
FailedProbeStep(r) ==
    /\ fpc[r] = "resolving"
    /\ Len(probeLog'[r]) = Len(probeLog[r]) + 1
    /\ probeLog'[r][Len(probeLog'[r])].n = 0

\* Run r leaves the resolver with every candidate tried
ExhaustedStep(r) ==
    /\ fpc[r] = "resolving"
    /\ fcand[r] > Len(Cands(r))
    /\ fpc'[r] # "resolving"

C9_Step ==
    \A r \in Runs :
        /\ FailedProbeStep(r) =>
              /\ fpc'[r] = "resolving"
              /\ fcand'[r] = fcand[r] + 1
              /\ fcount'[r] = fcount[r]
        /\ ExhaustedStep(r) =>
              /\ fpc'[r] = "loop"
              /\ fsrc'[r] = fsrc[r] + 1
              /\ fcount'[r] = fcount[r]
        /\ fpc[r] = "resolving" =>
              \A out \in ProbeFailures \cup {DocEmptyChannel, DocHtml} :
                  AfterProbe(r, out) = "resolving"

\* C9: resolver failure tolerance.  A probe that times out, gets a non-ok
\* status, fails to parse or parses into no item sends the resolver to the
\* next candidate and changes no counter; when the candidates are used up
\* the run goes to the next source with its failed (and ok) count unchanged.
C9_ResolverTolerant == [][C9_Step]_vars

\* Every one of two or more candidates failed, the run has moved past the
\* source, and it has counted no failure.
C9_Witness ==
    \E r \in Runs :
        /\ fpc[r] = "loop"
        /\ fsrc[r] > 1
        /\ Len(probeLog[r]) >= 2
        /\ Len(probeLog[r]) = Len(buildCandidateFeeds(Srcs[fsrc[r] - 1]))
        /\ \A i \in 1..Len(probeLog[r]) : probeLog[r][i].n = 0
        /\ fcount[r] = ZeroFeedCount


\* ------------------------------------------------------------------------
\* Story writer: properties
\* ------------------------------------------------------------------------

SameKey(a, b) ==
    /\ a.state = b.state /\ a.county = b.county /\ a.story_type = b.story_type
    /\ a.time_window_start = b.time_window_start
    /\ a.time_window_end = b.time_window_end

\* The story rows for a group's region and a run's window
KeyRows(grp, win) ==
    {st \in stories : /\ st.state = grp.state /\ st.county = grp.county
                      /\ st.story_type = "roundup"
                      /\ st.time_window_start = win.windowStart
                      /\ st.time_window_end = win.windowEnd}

\* Run r takes the turn of the loop for its current group, and main goes on
GroupStep(r) ==
    /\ wpc[r] = "loop"
    /\ wg[r] <= Len(wgroups[r])
    /\ (wpc'[r] # "loop" \/ wg'[r] # wg[r])
    /\ wpc'[r] # "fatal"

\* The story was written by a turn that main counted as created
Created(s) ==
    LET o == offered[s]
    IN Len(outcome[o.run]) >= o.g /\ outcome[o.run][o.g] = "created"

C2_OneStoryWhenSequential ==
    ~overlapped => \A a, b \in stories : SameKey(a, b) => a = b

C2_CoveredIsSkipped ==
    \A r \in Runs :
        (/\ GroupStep(r)
         /\ Len(CurGroup(r).items) >= MinGroupSize
         /\ KeyRows(CurGroup(r), wwin[r]) # {})
        => /\ wpc'[r] = "loop" /\ wg'[r] = wg[r] + 1
           /\ wcount'[r] = [wcount[r] EXCEPT !.skipped = @ + 1]
           /\ outcome'[r] = Append(outcome[r], "already_exists")
           /\ aiCalls' = aiCalls
           /\ stories' = stories /\ story_sources' = story_sources

\* C2: window uniqueness, sequential case.  As long as no two runs have been
\* active at the same time, stories holds at most one row per (state, county,
\* story type, window start, window end); and a run that comes to a group
\* whose key already has a story row issues no generation call, writes
\* nothing and counts the group as skipped.
C2_WindowUniqueSequential ==
    [](C2_OneStoryWhenSequential) /\ [][C2_CoveredIsSkipped]_vars

\* Two runs, one after the other, with the same window: the first created the
\* story of a group, the second skipped that group as already existing, and
\* the key has exactly one row.
C2_Witness ==
    /\ ~overlapped
    /\ \E r \in Runs, q \in Runs :
          /\ r # q
          /\ wpc[r] = "done" /\ wpc[q] = "done"
          /\ wwin[r] = wwin[q]
          /\ \E g \in 1..Len(outcome[r]), h \in 1..Len(outcome[q]) :
                /\ outcome[r][g] = "created"
                /\ outcome[q][h] = "already_exists"
                /\ wgroups[r][g].county = wgroups[q][h].county
                /\ Cardinality(KeyRows(wgroups[r][g], wwin[r])) = 1

\* C3: window uniqueness under overlap.  stories holds at most one row per
\* (state, county, story type, window start, window end), however two runs
\* interleave their storyAlreadyExists check and their insertStory write.
C3_OneStoryPerKey ==
    \A a, b \in stories : SameKey(a, b) => a = b

\* C5: citation validity.  Every story_sources row of a story cites an item
\* that was listed in the prompt built for that story.
C5_CitationsWereOffered ==
    \A s \in 1..Len(story_sources) :
        \A i \in 1..Len(story_sources[s]) :
            \E k \in 1..Len(offered[s].prompt) :
                offered[s].prompt[k].id = story_sources[s][i].feed_item_id

NoUsedIndexes(used) ==
    used.kind = "absent" \/ (used.kind = "array" /\ used.elems = <<>>)

FallbackRows(s) ==
    LET p == offered[s].prompt
    IN [i \in 1..Min(FallbackCount, Len(p)) |-> CitationRow(s, p[i])]

\* C6: citation fallback.  For a story whose generation response had an empty
\* or absent used_source_indexes, the story_sources rows are, in insertion
\* order, the first min(6, n) of the n items listed in the prompt: a leading
\* part of them while the inserts are under way, all of them once the group
\* is counted as created.
C6_CitationFallback ==
    \A s \in 1..Len(story_sources) :
        NoUsedIndexes(offered[s].used) =>
            /\ Len(story_sources[s]) <= Len(FallbackRows(s))
            /\ story_sources[s] = SubSeq(FallbackRows(s), 1, Len(story_sources[s]))
            /\ Created(s) => story_sources[s] = FallbackRows(s)

\* A created story whose response carried no used_source_indexes and whose
\* prompt listed more than six items has exactly six citations.
C6_Witness ==
    \E s \in 1..Len(story_sources) :
        /\ offered[s].used.kind = "absent"
        /\ Created(s)
        /\ Len(offered[s].prompt) > FallbackCount
        /\ Len(story_sources[s]) = FallbackCount
        /\ story_sources[s][1].feed_item_id = offered[s].prompt[1].id

Skips(r) ==
    Cardinality({g \in 1..Len(outcome[r]) :
                    outcome[r][g] \in {"too_small", "already_exists"}})

C7_SmallGroupsAreSkipped ==
    \A r \in Runs :
        /\ \A g \in 1..Len(outcome[r]) :
              Len(wgroups[r][g].items) < MinGroupSize =>
                 /\ outcome[r][g] = "too_small"
                 /\ \A k \in 1..Len(aiCalls[r]) : aiCalls[r][k].g # g
                 /\ \A s \in 1..Len(offered) : ~(offered[s].run = r /\ offered[s].g = g)
        /\ wpc[r] \in {"generating", "citing"} =>
              Len(CurGroup(r).items) >= MinGroupSize
        /\ wcount[r].skipped = Skips(r)

C7_LargeGroupsProceed ==
    \A r \in Runs :
        (/\ GroupStep(r)
         /\ Len(CurGroup(r).items) >= MinGroupSize
         /\ KeyRows(CurGroup(r), wwin[r]) = {})
        => /\ wpc'[r] = "generating"
           /\ aiCalls'[r] = Append(aiCalls[r], [g |-> wg[r],
                                                prompt |-> PromptItems(CurGroup(r).items)])
           /\ wcount'[r] = wcount[r]

\* C7: minimum-evidence gate.  A group with fewer than 3 items ends as
\* skipped (too small): no generation call is issued for it and no story is
\* written for it; a run is only ever generating or citing for a group of 3
\* or more items; and a group of 3 or more items whose key has no story row
\* goes on to the generation call.
C7_MinimumEvidenceGate ==
    [](C7_SmallGroupsAreSkipped) /\ [][C7_LargeGroupsProceed]_vars

\* One finished run skipped a group of exactly 2 items and created the story
\* of a group of exactly 3.
C7_Witness ==
    \E r \in Runs :
        /\ wpc[r] = "done"
        /\ \E g \in 1..Len(outcome[r]), h \in 1..Len(outcome[r]) :
              /\ Len(wgroups[r][g].items) = MinGroupSize - 1
              /\ outcome[r][g] = "too_small"
              /\ Len(wgroups[r][h].items) = MinGroupSize
              /\ outcome[r][h] = "created"
        /\ wcount[r].skipped = 1 /\ wcount[r].created = 1

\* ------------------------------------------------------------------------
\* Normalizers: properties
\* ------------------------------------------------------------------------

AlternateHrefs(link) ==
    {OrEmpty(link[i].href) : i \in {j \in 1..Len(link) : link[j].rel = "alternate"}}

\* C10: alternate-link selection.  For an Atom entry with two or more links,
\* the link both normalizers produce is the href of a link whose rel is
\* "alternate" (so of the one such link when there is just one, wherever it
\* stands in the list), and is empty when no link has that rel; it is never
\* taken from a link with another rel.
C10_AlternateLink ==
    (norm # <<>> /\ Len(entry) >= 2) =>
        \A i \in 1..2 :
            IF AlternateHrefs(entry) = {} THEN norm[i] = ""
            ELSE norm[i] \in AlternateHrefs(entry)

\* Three links, the alternate one last and the first a self link with another
\* href: the normalized link is the href of the third.
C10_Witness ==
    /\ norm # <<>>
    /\ Len(entry) = 3
    /\ entry[1].rel = "self" /\ entry[2].rel = "enclosure" /\ entry[3].rel = "alternate"
    /\ entry[1].href = "https://n.example/feed.xml"
    /\ entry[3].href = "https://n.example/story"
    /\ norm[1] = "https://n.example/story" /\ norm[2] = "https://n.example/story"


\* ------------------------------------------------------------------------
\* Search ingest: properties
\* ------------------------------------------------------------------------

\* The article about to be written was stored before, for the same region,
\* query and window
SameResultStored ==
    /\ spc = "writing"
    /\ sart <= Len(sarticles)
    /\ [tag |-> CurRegion.tag, query |-> CurQuery, win |-> swin,
        article |-> sarticles[sart]] \in written

WriteStep == spc = "writing" /\ sart' = sart + 1

\* C11: writing a search result that was already written for the same query
\* and window leaves the number of rows of the destination unchanged, whatever
\* the columns of the destination.
C11_SearchIngestIdempotent ==
    [][(SameResultStored /\ WriteStep) => Len(trows') = Len(trows)]_vars

\* ------------------------------------------------------------------------
\* Story writer: generation failures
\* ------------------------------------------------------------------------

\* C12: a group whose generation call fails in transport, whose text is not
\* JSON, or whose payload lacks the required shape is counted as failed and
\* gets no story row: every story row was written from a payload that carries
\* a title, a body and an array of used_source_indexes.
C12_GenerationValidation ==
    \A s \in stories :
        /\ s.title # s.county \o " County Roundup"
        /\ s.body_markdown # ""
        /\ offered[s.id].used.kind = "array"

\* C13: whatever step fails for a group, the run goes through every group:
\* a run that has ended has counted each of its groups as created, skipped
\* or failed.
C13_EveryGroupIsCounted ==
    \A r \in Runs :
        wpc[r] \in {"done", "fatal"} =>
            wcount[r].created + wcount[r].skipped + wcount[r].failed = Len(wgroups[r])

\* The (region, query) pairs whose trimmed query is long enough, from query j
\* of region i on, in catalog order
RECURSIVE PairsFrom(_, _)
PairsFrom(i, j) ==
    IF i > Len(REGIONS) THEN <<>>
    ELSE IF j > Len(REGIONS[i].queries) THEN PairsFrom(i + 1, 1)
    ELSE LET q == trim(REGIONS[i].queries[j])
         IN (IF Len(q) >= minKeywordLen
             THEN <<[tag |-> REGIONS[i].tag, query |-> q]>> ELSE <<>>)
            \o PairsFrom(i, j + 1)

ValidPairs == PairsFrom(1, 1)

Attempted == [k \in DOMAIN requests |->
                [tag |-> requests[k].tag, query |-> requests[k].url.query]]

\* C14: whatever requests fail (status, network, unparseable body) and
\* whatever writes fail, the requests issued so far are the first valid
\* (region, query) pairs in order, each once; the run gives up only before its
\* first request (no destination table), and at its done summary every valid
\* pair has been attempted.
C14_SearchFailureIsolation ==
    /\ Len(Attempted) <= Len(ValidPairs)
    /\ Attempted = SubSeq(ValidPairs, 1, Len(Attempted))
    /\ spc = "fatal" => requests = <<>>
    /\ spc = "done" => Attempted = ValidPairs

\* A finished run over four valid pairs in which one request got a non-2xx
\* status, one an unparseable body, and a write failed
C14_Witness ==
    /\ spc = "done"
    /\ Len(ValidPairs) = 4
    /\ Attempted = ValidPairs
    /\ \E k \in DOMAIN requests : requests[k].outcome = "http_status"
    /\ \E k \in DOMAIN requests : requests[k].outcome = "bad_json"
    /\ \E k \in DOMAIN requests : requests[k].outcome = "ok"
    /\ stotals.totalRowErrors > 0
    /\ stotals.totalWrites > 0

\* The loop stands at a query whose trimmed length is below the minimum
ShortQueryPending ==
    /\ spc = "loop"
    /\ sreg <= Len(REGIONS)
    /\ Len(CurQuery) < minKeywordLen

C15_NoShortRequest ==
    \A k \in DOMAIN requests : Len(trim(requests[k].url.query)) >= minKeywordLen

C15_ShortIsSkipped ==
    ShortQueryPending =>
        /\ requests' = requests
        /\ spc' = "loop"
        /\ <<sreg', sqry'>> = IF sqry < Len(REGIONS[sreg].queries)
                              THEN <<sreg, sqry + 1>> ELSE <<sreg + 1, 1>>

\* C15: no search request is issued for a query whose trimmed length is below
\* the minimum keyword length; the step taken at such a query issues nothing
\* and moves the loop to the next query.
C15_KeywordPreflight == [](C15_NoShortRequest) /\ [][C15_ShortIsSkipped]_vars

\* A finished run that skipped a short query and then requested longer ones
C15_Witness ==
    /\ spc = "done"
    /\ minKeywordLen > Len(trim(REGIONS[1].queries[1]))
    /\ Len(requests) = Len(ValidPairs)
    /\ requests # <<>>
    /\ requests[1].url.query = trim(REGIONS[1].queries[2])

\* ------------------------------------------------------------------------
\* Feed ingest: what a run reports, what it drops, unknown timestamps
\* ------------------------------------------------------------------------

\* Run r takes the turn of the loop over resolved.items for the item at fitem[r]
ItemTurn(r) ==
    /\ fpc[r] = "inserting"
    /\ fitem[r] <= Len(fres[r].items)
    /\ fitem'[r] = fitem[r] + 1

CurItem(r) == fres[r].items[fitem[r]]

\* C16: the run tells new rows from duplicates: a write of an item that is
\* already stored for the source (same title and link) is not added to the
\* count of stored items the run reports, so a re-run on an unchanged feed
\* reports 0 new rows.
C16_DuplicateIsNotReportedNew ==
    [][\A r \in Runs :
          (ItemTurn(r) /\ Stored(fsid[r], CurItem(r)))
              => fcount'[r].attempted = fcount[r].attempted]_vars

\* C19: feed ingest drops exactly the parsed items that lack both a title and
\* a link: the turn for an item hands it to insertFeedItem if and only if it
\* has a title or a link.
C19_DropRule ==
    [][\A r \in Runs :
          ItemTurn(r) =>
              ((fcount'[r].attempted = fcount[r].attempted + 1)
                  <=> (CurItem(r).title # "" \/ CurItem(r).link # ""))]_vars

\* The date text is missing, or new Date() of it is invalid
UnknownTime(it) == it.pubDate = "" \/ DateOf(it.pubDate) = <<>>

C20_Step(r) ==
    (ItemTurn(r) /\ CurItem(r).title # "" /\ CurItem(r).link # ""
       /\ UnknownTime(CurItem(r))
       /\ ~\E row \in feed_items :
              row.source_id = fsid[r]
              /\ row.content_hash = CurItem(r).title \o "||" \o CurItem(r).link)
    => /\ \E row \in feed_items' \ feed_items :
              /\ row.source_id = fsid[r]
              /\ row.title = CurItem(r).title
              /\ row.link = CurItem(r).link
              /\ row.published_at = NULL
       /\ fcount'[r].failed = fcount[r].failed
       /\ fpc'[r] = "inserting"

\* C20: an item with a title and a link whose timestamp is missing or does not
\* parse, and which is not stored yet, is stored by its turn with a null
\* published time; the source is not counted as failed for it and the loop
\* goes on.
C20_UnknownTimestampIsStored == [][\A r \in Runs : C20_Step(r)]_vars

\* A finished run without failures that stored an item without a date and an
\* item with an unreadable date, both with a null time
C20_Witness ==
    \E r \in Runs :
        /\ fpc[r] = "done"
        /\ fcount[r].failed = 0
        /\ \E row \in feed_items :
              row.title = "a||" /\ row.link = "b" /\ row.published_at = NULL
        /\ \E row \in feed_items :
              row.title = "a" /\ row.link = "b" /\ row.published_at = NULL

\* C17: no run blocks forever: a search request that waits for the index ends
\* (by an answer or by a timeout that fails this query only), so the worker
\* never stays in the request.
C17_SearchRequestEnds == (spc = "waiting") ~> (spc # "waiting")

\* ------------------------------------------------------------------------
\* Story writer: a run that is terminated, and the next one
\* ------------------------------------------------------------------------

\* The writer process is terminated from outside while main is at an await
WKill(r) ==
    /\ WActive(r)
    /\ wpc' = [wpc EXCEPT ![r] = "killed"]
    /\ UNCHANGED <<clock, wwin, wgroups, wg, wstory, wchosen, wci, wcount,
                   aiCalls, outcome, offered, overlapped>>
    /\ UNCHANGED <<dbVars, feedVars, parseVars, webVars, searchVars>>

NextResume ==
    \/ NextSynth
    \/ \E r \in Runs : WKill(r)

SpecResume == InitSynth /\ [][NextResume]_vars

\* C18: when a run is terminated after it persisted the story of a region and
\* the writer is started again (the two never active together), the second
\* run adds no second story for that region.
C18_RestartAddsNoSecondStory ==
    ~overlapped =>
        ~\E a, b \in stories :
            /\ a.id < b.id
            /\ a.state = b.state
            /\ a.county = b.county
            /\ offered[a.id].run # offered[b.id].run
            /\ wpc[offered[a.id].run] = "killed"

\* ------------------------------------------------------------------------
\* Order of the drafts of one feed
\* ------------------------------------------------------------------------

\* C21: the sequence of drafts the normalizer yields for a feed lists every
\* item with a known timestamp before every item with an unknown timestamp,
\* whatever the order of the entries in the fetched document.  Stated on the
\* items parseRss returned for the resolved feed, which runOnce walks in
\* that order.
C21_NullsLastDrafts ==
    \A r \in Runs :
        LET items == fres[r].items
        IN \A i \in 1..Len(items) : \A j \in 1..Len(items) :
               (i < j /\ toTimestamp(items[j].pubDate) # NULL)
                   => toTimestamp(items[i].pubDate) # NULL

\* ------------------------------------------------------------------------
\* Catalog errors
\* ------------------------------------------------------------------------

Malformed(cfg) == ~CatalogFound(cfg) \/ "states" \notin DOMAIN cfg

\* C22: when the source catalog is missing or malformed (for example it has
\* no states map), the feed-ingest run aborts with a failure before it opens
\* the database connection or fetches any feed: such a run is never past its
\* start other than in the fatal exit, and it logs no probe.
C22_CatalogErrorsAreFatal ==
    \A r \in Runs :
        Malformed(config) => /\ fpc[r] \in {"idle", "fatal"}
                             /\ probeLog[r] = <<>>

\* ------------------------------------------------------------------------
\* Absent destination
\* ------------------------------------------------------------------------

\* C23: when introspection finds no columns for the target table, the search
\* run aborts with a failure exit and issues no search request and no write:
\* such a run is only ever idle or in the failure exit, its request log and
\* the table stay empty and no counter of the summary moves.
C23_AbsentDestinationIsFatal ==
    dest.cols = {} => /\ spc \in {"idle", "fatal"}
                      /\ requests = <<>>
                      /\ trows = <<>>
                      /\ written = {}
                      /\ stotals = ZeroTotals

\* The run against the absent table has started and exited with the failure
C23_Witness == dest.cols = {} /\ sruns = 1 /\ spc = "fatal"

\* ------------------------------------------------------------------------
\* Which sources are fetched
\* ------------------------------------------------------------------------

\* C24: a feed probe is issued for a source only when its catalog entry is
\* explicitly enabled; a source with no enabled flag, with a false flag, or
\* under a county that is not enabled is never fetched.  Stated on the source
\* the run is resolving or ingesting once it has logged a probe.
C24_EnabledOnlyFetching ==
    \A r \in Runs :
        (fpc[r] \in {"resolving", "resolved", "inserting"} /\ probeLog[r] # <<>>)
            => Truthy(CurSrc(r).enabled)

\* ------------------------------------------------------------------------
\* The statement writeOne builds
\* ------------------------------------------------------------------------

\* The result of writeOne for the article the run is about to write
ArticleTurn == spc = "writing" /\ sart <= Len(sarticles)
CurWrite ==
    writeOne(dest.cols, conflictColumn, CurRegion.tag, CurRegion.state, CurQuery,
             sarticles[sart], swin.end)
HasRecognizedKey == \E i \in DOMAIN KeyCandidates : KeyCandidates[i] \in dest.cols

\* C25: for every destination column set, the insert statement built by
\* writeOne names only columns of the introspected set, and it carries an
\* upsert (on-conflict update of all non-key inserted columns) exactly when
\* the destination has a recognized key column; otherwise it is a plain
\* insert.
C25_SchemaAdaptation ==
    (ArticleTurn /\ CurWrite.didWrite) =>
        LET sql == CurWrite.sql
        IN /\ sql.insert \subseteq dest.cols
           /\ (sql.onConflict # NoColumn) <=> HasRecognizedKey
           /\ sql.onConflict # NoColumn =>
                 /\ sql.onConflict = conflictColumn
                 /\ sql.update = sql.insert \ {conflictColumn}
           /\ sql.onConflict = NoColumn => sql.update = {}

\* ------------------------------------------------------------------------
\* Results writeOne rejects without a statement
\* ------------------------------------------------------------------------

\* One turn of the loop over the articles in which writeOne returns
\* didWrite: false
RejectStep == ArticleTurn /\ ~CurWrite.didWrite /\ sart' = sart + 1

\* C26: when a search result cannot populate any destination column, or has
\* no value for a required column (state, or the chosen key column), writeOne
\* issues no database statement, the result is counted as skipped, and the
\* run continues with the next result.  The table and the counts of writes
\* and row errors are unchanged by such a turn, the run stays in the loop
\* over the articles, and a counter of the run's summary records the turn.
C26_LocalRejection ==
    [][RejectStep =>
          /\ trows' = trows
          /\ written' = written
          /\ dbErrors' = dbErrors
          /\ stotals'.totalWrites = stotals.totalWrites
          /\ stotals'.totalRowErrors = stotals.totalRowErrors
          /\ spc' = "writing"
          /\ stotals' # stotals]_vars

\* The same turn without the count: no statement, and the run goes on
T26_RejectedWithoutStatement ==
    [][RejectStep =>
          /\ trows' = trows
          /\ written' = written
          /\ dbErrors' = dbErrors
          /\ stotals'.totalRowErrors = stotals.totalRowErrors
          /\ spc' = "writing"]_vars

\* ------------------------------------------------------------------------
\* What the summary of a run accounts for
\* ------------------------------------------------------------------------

\* The request of the current query ends in the catch of lines 347-349
QueryFailStep == spc = "waiting" /\ spc' = "loop"

\* One turn of the loop over the articles in which writeOne issues a statement
StatementStep == ArticleTurn /\ CurWrite.didWrite /\ sart' = sart + 1

\* C27: at the end of a search run every result returned by upstream is
\* counted as exactly one of written, skipped or row-error, and every failed
\* query is counted; at the end of a feed run every probe failure and every
\* source is counted; no failure is swallowed uncounted.  Stated for the
\* search run, step by step: a statement adds one to exactly one of
\* totalWrites and totalRowErrors, and a failed query moves a counter of the
\* summary.
C27_CompleteAccounting ==
    [][/\ StatementStep =>
             \/ /\ stotals'.totalWrites = stotals.totalWrites + 1
                /\ stotals'.totalRowErrors = stotals.totalRowErrors
             \/ /\ stotals'.totalWrites = stotals.totalWrites
                /\ stotals'.totalRowErrors = stotals.totalRowErrors + 1
       /\ QueryFailStep => stotals' # stotals]_vars

\* ------------------------------------------------------------------------
\* Pacing of outbound requests
\* ------------------------------------------------------------------------

\* The run sends a feed request
ProbeSent(r) == fpc[r] = "resolving" /\ probeLog'[r] # probeLog[r]

\* C28: within one run, the pacing delay elapses between any two consecutive
\* outbound requests to third-party endpoints, on every path (successful
\* source, not-found source, failed source, successive candidate probes,
\* successive search queries).  Stated for the feed run: a request is never
\* sent when the last thing the run did towards a third party was a request.
C28_Pacing ==
    [][\A r \in Runs : ProbeSent(r) => fpace[r] # "request"]_vars

\* ------------------------------------------------------------------------
\* loadRecentFeedItems over tables of many sizes
\* ------------------------------------------------------------------------

MaxSample == 3

\* A table in which one county alone fills the LIMIT of the SELECT: Gulf has
\* MinGroupSize items without a time, Bay has QueryLimit dated items
CrowdedTable ==
    {[StoredItem(i, 2) EXCEPT !.published_at = NULL] : i \in 1..MinGroupSize}
    \cup {[StoredItem(i, 1) EXCEPT !.published_at = <<2 * WindowHours - (i % 5)>>]
            : i \in (MinGroupSize + 1)..(MinGroupSize + QueryLimit)}

SampleTables ==
    {ItemTable(nBay, nGulf) : nBay \in 0..MaxSample, nGulf \in 0..MaxSample}
    \cup {ItemTable(limitPerCounty + Extra, MinGroupSize), CrowdedTable}

InitSample ==
    /\ schema = "full"
    /\ sources = SynthSources
    /\ feed_items \in SampleTables
    /\ stories = {}
    /\ story_sources = <<>>
    /\ config = ConfigDedup
    /\ FeedIdle
    /\ SynthIdle
    /\ ParseIdle
    /\ SearchIdle
    /\ WebIdle

\* main up to the return of loadRecentFeedItems
NextSample == \E r \in Runs : \E now \in Clocks : WStart(r, now)

SpecSample == InitSample /\ [][NextSample]_vars

\* The eligible rows of one region in the window
RegionRows(state, county, win) ==
    {JoinedRow(fi) : fi \in
        {x \in feed_items :
            /\ Eligible(x, win.windowStart, win.windowEnd)
            /\ \E src \in sources :
                  src.id = x.source_id /\ src.state = state /\ src.county = county}}

\* The newest min(cap, n) of them
NewestOf(rows) == {x \in rows : Rank(x, rows) < limitPerCounty}

Regions == {[state |-> s.state, county |-> s.county] : s \in sources}

\* C29: for every region, the group handed to synthesis holds the newest
\* min(cap, n) of that region's eligible items (published in the window or
\* unknown), ordered newest first with unknown times last, however many
\* items other regions have.
C29_PerRegionSample ==
    \A r \in Runs :
        wpc[r] = "loop" =>
            \A k \in Regions :
                LET rows == RegionRows(k.state, k.county, wwin[r])
                IN rows # {} =>
                      \E i \in DOMAIN wgroups[r] :
                          LET g == wgroups[r][i]
                          IN /\ g.state = k.state /\ g.county = k.county
                             /\ Range(g.items) = NewestOf(rows)
                             /\ \A a \in DOMAIN g.items : \A b \in DOMAIN g.items :
                                    a < b => Before(g.items[a], g.items[b])

\* The same for the tables that stay under the LIMIT of the SELECT
T29_SampleUnderTheLimit ==
    Cardinality(feed_items) <= QueryLimit => C29_PerRegionSample

\* ------------------------------------------------------------------------
\* The candidate list
\* ------------------------------------------------------------------------

\* The configured feed URL and the derived URLs of the source handed in; the
\* configured URL is blank when it is absent, empty or only whitespace
ConfiguredFeed == trim(OrEmpty(csrc.rss_url))
SiteHost == safeUrlHost(trim(OrEmpty(csrc.website_url)))
DerivedUrls == [i \in 1..Len(DerivedPaths) |-> "https://" \o SiteHost \o DerivedPaths[i]]
NotConfigured(u) == u # ConfiguredFeed

\* C30: buildCandidateFeeds puts the source's configured feed URL first
\* whenever it is non-empty, followed by the fixed derived paths in a fixed
\* order, with no URL appearing twice; when the homepage has no parsable
\* host the list is just the configured URL (or empty).
C30_CandidateList ==
    cands # <<>> =>
        LET list == cands[1]
            rest == IF ConfiguredFeed # "" THEN Tail(list) ELSE list
        IN /\ ConfiguredFeed # "" => (list # <<>> /\ list[1] = ConfiguredFeed)
           /\ \A i \in DOMAIN list : \A j \in DOMAIN list : i # j => list[i] # list[j]
           /\ SiteHost # "" => rest = SelectSeq(DerivedUrls, NotConfigured)
           /\ SiteHost = "" => rest = <<>>

\* A configured URL that is also a derived path of the site: it is first and
\* the other eight derived URLs follow
C30_Witness ==
    /\ cands # <<>>
    /\ csrc.rss_url = " https://a.com/rss.xml "
    /\ SiteHost = "a.com"
    /\ Len(cands[1]) = Len(DerivedPaths)
    /\ cands[1][1] = "https://a.com/rss.xml"

\* ------------------------------------------------------------------------
\* The content signature
\* ------------------------------------------------------------------------

\* C31: with the hash function itself taken as collision-free, two drafts
\* with different (title, link) pairs never get the same content signature,
\* so no distinct item of a source is ignored as a duplicate of another.
\* Stated on the drafts of a resolved feed that runOnce hands to
\* insertFeedItem.
C31_SignatureInjective ==
    \A r \in Runs :
        LET items == fres[r].items
        IN \A i \in DOMAIN items : \A j \in DOMAIN items :
               (/\ ~ItemDropped(items[i])
                /\ ~ItemDropped(items[j])
                /\ <<items[i].title, items[i].link>> # <<items[j].title, items[j].link>>)
                   => hashItem(items[i].title, items[i].link)
                          # hashItem(items[j].title, items[j].link)

\* ------------------------------------------------------------------------
\* Identity of a source
\* ------------------------------------------------------------------------

SameSourceKey(a, b) ==
    a.state = b.state /\ a.county = b.county /\ a.source_name = b.source_name

C32_OneRowPerKey ==
    \A a, b \in sources : SameSourceKey(a, b) => a = b

\* The id upsertSource returned to a run is the id of the row of its source
C32_IdOfTheKey ==
    \A r \in Runs :
        fpc[r] = "inserting" =>
            \E row \in sources : row.id = fsid[r] /\ SameSourceKey(row, CurSrc(r))

\* No step changes the id stored for a key
C32_IdIsKept ==
    \A row \in sources : \E kept \in sources' : kept.id = row.id /\ SameSourceKey(kept, row)

\* C32: after any sequence of feed-ingest runs against the schema the worker
\* installs, the sources table holds at most one row per (state, county,
\* source name), and upsertSource returns the same id for the same key on
\* every run: the id a run gets is the id of the one row of its source, and
\* the id of a row never changes.
C32_SourceIdentity ==
    [](C32_OneRowPerKey /\ C32_IdOfTheKey) /\ [][C32_IdIsKept]_vars

\* One run has finished with its source, the other has upserted the same
\* source and got the same id, and the table holds the one row
C32_Witness ==
    \E r \in Runs, q \in Runs :
        /\ fpc[q] = "done" /\ fcount[q].ok = 1
        /\ fpc[r] = "inserting" /\ fsid[r] = fsid[q]
        /\ Len(Srcs) = 1
        /\ Cardinality(sources) = 1

\* ------------------------------------------------------------------------
\* The catalog is edited between two feed-ingest runs
\* ------------------------------------------------------------------------

\* ConfigProbe after an edit that switches its source off, and after an edit
\* that switches the county of the source off
ConfigSourceOff ==
    [states |-> << [code |-> "FL", counties |->
        << [name |-> "Bay", enabled |-> "true",
            sources |-> << [SrcA EXCEPT !.enabled = "false"] >>] >>] >>]
ConfigCountyOff ==
    [states |-> << [code |-> "FL", counties |->
        << [name |-> "Bay", enabled |-> "false", sources |-> <<SrcA>>] >>] >>]
ConfigEdits == {ConfigSourceOff, ConfigCountyOff}

\* sources.yaml is rewritten while no run is between loadSourcesYaml and its
\* summary: every run works on the catalog it loaded at its start
CatalogEdit(cfg) ==
    /\ config = ConfigProbe
    /\ \A r \in Runs : fpc[r] \in {"idle", "done", "fatal"}
    /\ config' = cfg
    /\ UNCHANGED <<dbVars, fpc, fsrc, fcand, fres, fitem, fsid, fcount, probeLog, fpace>>
    /\ UNCHANGED <<synthVars, parseVars, webVars, searchVars>>

InitSync == Init /\ config = ConfigProbe

NextSync ==
    \/ Next
    \/ \E cfg \in ConfigEdits : CatalogEdit(cfg)

SpecSync == InitSync /\ [][NextSync]_vars

\* The catalog lists the source of a stored row with enabled: false, or lists
\* it in a county with enabled: false
DisabledInCatalog(row) ==
    /\ "states" \in DOMAIN config
    /\ \E i \in DOMAIN config.states :
         \E j \in DOMAIN config.states[i].counties :
            LET st == config.states[i]
                c == st.counties[j]
            IN /\ st.code = row.state /\ c.name = row.county
               /\ \E k \in DOMAIN c.sources :
                     /\ c.sources[k].source_name = row.source_name
                     /\ (~Truthy(c.enabled) \/ c.sources[k].enabled = "false")

\* A run ends with its summary
SyncEnds == \E r \in Runs : fpc[r] = "loop" /\ fpc'[r] = "done"

C33_NoSourceDeleted ==
    \A row \in sources : \E kept \in sources' : kept.id = row.id

C33_DisabledIsMarked ==
    SyncEnds => \A row \in sources' : DisabledInCatalog(row)' => ~row.enabled

\* C33: no worker operation deletes a sources row, and a source that becomes
\* disabled in the catalog has its stored row marked disabled by the next
\* catalog sync (the next feed-ingest run over the edited catalog), so that
\* loadRecentFeedItems, which joins on s.enabled = TRUE, no longer returns
\* its items.
C33_DisabledNeverDeleted ==
    [][C33_NoSourceDeleted /\ C33_DisabledIsMarked]_vars

\* ------------------------------------------------------------------------
\* One feed-ingest run and one story-writer run on the same database
\* ------------------------------------------------------------------------

FeedRun == 1
WriterRun == 2

InitPipeline ==
    /\ schema = "full"
    /\ sources = SynthSources
    /\ feed_items = ItemTable(MinGroupSize, MinGroupSize - 1)
    /\ stories = {}
    /\ story_sources = <<>>
    /\ config = ConfigDedup
    /\ FeedIdle
    /\ SynthIdle
    /\ ParseIdle
    /\ SearchIdle
    /\ WebIdle

NextPipeline ==
    \/ FStart(FeedRun)
    \/ FBegin(FeedRun)
    \/ \E out \in ProbeFailures \cup Docs : FProbe(FeedRun, out)
    \/ FNotFound(FeedRun)
    \/ FUpsert(FeedRun)
    \/ FInsert(FeedRun)
    \/ FSourceDone(FeedRun)
    \/ FFinish(FeedRun)
    \/ \E now \in Clocks : WStart(WriterRun, now)
    \/ WStartFail(WriterRun)
    \/ WCheck(WriterRun)
    \/ WCheckFail(WriterRun)
    \/ \E resp \in AiFailures : WAiFail(WriterRun, resp)
    \/ WStoryFail(WriterRun)
    \/ \E parsed \in AiPayloads : WStory(WriterRun, parsed)
    \/ WCite(WriterRun)
    \/ WCiteFail(WriterRun)
    \/ WFinish(WriterRun)

SpecPipeline == InitPipeline /\ [][NextPipeline]_vars

\* story_sources as the set of its rows
CitationRows == UNION {Range(story_sources[i]) : i \in DOMAIN story_sources}

C34_Step ==
    /\ feed_items \subseteq feed_items'
    /\ stories \subseteq stories'
    /\ CitationRows \subseteq CitationRows'

\* C34: no operation of feed ingest or synthesis modifies or deletes an
\* existing feed_items, stories or story_sources row: every row of the three
\* tables is, unchanged, a row of the same table after every step, so the
\* tables only grow.
C34_WriteOnce == [][C34_Step]_vars

\* Both runs are over: the feed run stored new items and met a stored one
\* again, the writer stored a story with citations
C34_Witness ==
    /\ fpc[FeedRun] = "done" /\ wpc[WriterRun] = "done"
    /\ fcount[FeedRun].attempted > Cardinality(feed_items) - Cardinality(ItemTable(MinGroupSize, MinGroupSize - 1))
    /\ Cardinality(feed_items) > Cardinality(ItemTable(MinGroupSize, MinGroupSize - 1))
    /\ stories # {}
    /\ CitationRows # {}

\* ------------------------------------------------------------------------
\* The ends of the writer's window
\* ------------------------------------------------------------------------

\* The rows a run's loadRecentFeedItems returned
Loaded(r) ==
    UNION {Range(wgroups[r][g].items) : g \in DOMAIN wgroups[r]}

C35_EndIsOut ==
    \A r \in Runs :
        wpc[r] \notin {"idle", "fatal"} =>
            \A it \in Loaded(r) : it.published_at # <<wwin[r].windowEnd>>

C35_StartIsIn ==
    \A r \in Runs :
        wpc[r] \notin {"idle", "fatal"} =>
            \A fi \in feed_items :
                (/\ fi.published_at = <<wwin[r].windowStart>>
                 /\ \E src \in sources : src.id = fi.source_id /\ src.enabled)
                    => Eligible(fi, wwin[r].windowStart, wwin[r].windowEnd)

\* C35: the writer's window is half-open: an item whose published time is
\* equal to the window end is not eligible (loadRecentFeedItems does not
\* return it), and an item whose published time is equal to the window start
\* is eligible.
C35_HalfOpenWindow == C35_EndIsOut /\ C35_StartIsIn

\* ------------------------------------------------------------------------
\* Failed groups and the stories table
\* ------------------------------------------------------------------------

\* The group a story was written for has been counted by its run
GroupCounted(s) == Len(outcome[offered[s].run]) >= offered[s].g

\* C36: every group a run counted as failed has no story row for its window
\* after the run, and a story row exists only for groups counted as created:
\* once the group of a story row has been counted, it was counted as created.
C36_FailedPersistsNothing ==
    \A s \in stories :
        GroupCounted(s.id) => outcome[offered[s.id].run][offered[s.id].g] = "created"

\* ------------------------------------------------------------------------
\* Stories and their citations
\* ------------------------------------------------------------------------

\* C37: every persisted story has at least one citation row, whatever
\* used_source_indexes the response carried (absent, empty, out of range,
\* zero, non-numeric): once the turn that wrote a story is over, story_sources
\* holds a row for it.
C37_NoUncitedStory ==
    \A s \in stories :
        GroupCounted(s.id) => Len(story_sources[s.id]) >= 1

\* ------------------------------------------------------------------------
\* The key column and the row built for a result
\* ------------------------------------------------------------------------

\* article?.url || article?.urlsource || article?.sourceurl
ResultUrl(article) ==
    OrElse(article.url, OrElse(article.urlsource, OrElse(article.sourceurl, NULL)))

CurRow ==
    buildRowForTable(dest.cols, CurRegion.tag, CurRegion.state, CurQuery,
                     sarticles[sart], swin.end)

\* C38: for every destination column set for which pickUniqueKeyColumn
\* chooses a key column, the row buildRowForTable builds for a result that
\* has a URL contains a value for that key column.
C38_ChosenKeyIsPopulated ==
    (/\ ArticleTurn
     /\ conflictColumn # NoColumn
     /\ ~Falsy(ResultUrl(sarticles[sart])))
        => /\ conflictColumn \in DOMAIN CurRow
           /\ ~Falsy(CurRow[conflictColumn])

\* ------------------------------------------------------------------------
\* Web reads (apps/web/lib/queries.ts): getCombinedFeed
\* ------------------------------------------------------------------------

\* The URLs of the model, in the order ORDER BY url puts them
WebUrls == <<"https://a.com/1", "https://b.com/2", "https://c.com/3">>

\* A row as the query selects it: url and title are <<>> (SQL NULL) or <<text>>,
\* the two times are NULL or <<hours>>
PageRow(tbl, id, url, title, publishedAt, fetchedAt) ==
    [tbl |-> tbl, id |-> id, url |-> url, title |-> title,
     published_at |-> publishedAt, fetched_at |-> fetchedAt]

\* Rows the two tables may hold: a URL in both tables, a URL twice in one
\* table, rows without published_at, without any time, without url or title
StoryPool ==
    {PageRow("stories", 1, <<WebUrls[1]>>, <<"Storm">>, <<1>>, <<5>>),
     PageRow("stories", 2, <<WebUrls[1]>>, <<"Storm update">>, NULL, <<3>>),
     PageRow("stories", 3, <<WebUrls[2]>>, <<"Bridge">>, NULL, NULL),
     PageRow("stories", 4, NULL, <<"No link">>, <<4>>, <<4>>),
     PageRow("stories", 5, <<WebUrls[3]>>, NULL, <<4>>, <<4>>)}
SearchPool ==
    {PageRow("panhandle_search_articles", 1, <<WebUrls[1]>>, <<"Storm">>, <<2>>, <<2>>),
     PageRow("panhandle_search_articles", 2, <<WebUrls[2]>>, <<"Bridge">>, <<2>>, <<3>>),
     PageRow("panhandle_search_articles", 3, <<WebUrls[3]>>, <<"Council">>, <<4>>, <<4>>),
     PageRow("panhandle_search_articles", 4, <<WebUrls[3]>>, <<"Council vote">>, <<4>>, <<5>>)}

\* HomePage: getCombinedFeed(60)
HomeLimit == 60
MaxLimit == 2
Limits == (1..MaxLimit) \cup {HomeLimit}

\* WITH combined AS (... UNION ALL ...): the rows of both tables that have a
\* url and a title
Combined ==
    {r \in pageStories \cup pageSearch : r.url # NULL /\ r.title # NULL}

\* COALESCE(published_at, fetched_at)
Coalesce(r) == IF r.published_at # NULL THEN r.published_at ELSE r.fetched_at

\* ORDER BY ..., COALESCE(...) DESC within one url: NULL sorts first in a
\* descending order, then the later time; TRUE when x may stand before y
SortsBefore(x, y) ==
    \/ Coalesce(x) = NULL
    \/ Coalesce(y) # NULL /\ Coalesce(x)[1] >= Coalesce(y)[1]

CombinedUrls == {r.url[1] : r \in Combined}

\* SELECT DISTINCT ON (url): for each url the first row of its group in the
\* ordering; among rows that tie any of them may be the first
DistinctOn ==
    {pick \in [CombinedUrls -> Combined] :
        \A u \in CombinedUrls :
            /\ pick[u].url = <<u>>
            /\ \A y \in Combined : y.url = <<u>> => SortsBefore(pick[u], y)}

\* The urls of the result in ORDER BY url order
OrderedUrls == SelectSeq(WebUrls, LAMBDA u : u \in CombinedUrls)

toFeedItem(row) ==
    [id |-> row.id, title |-> row.title[1], url |-> row.url[1],
     published_at |-> row.published_at, fetched_at |-> row.fetched_at]

\* The rows of the statement: ORDER BY url, ... LIMIT $1 over the picked rows
CombinedRows(pick, limit) ==
    [i \in 1..Min(limit, Len(OrderedUrls)) |-> toFeedItem(pick[OrderedUrls[i]])]

\* getCombinedFeed(limit)
GetCombinedFeed(limit) ==
    /\ feed = <<>>
    /\ \E pick \in DistinctOn :
          feed' = <<CombinedRows(pick, limit)>>
    /\ feedLimit' = limit
    /\ UNCHANGED <<pageStories, pageSearch>>
    /\ UNCHANGED <<dbVars, feedVars, synthVars, parseVars, searchVars>>

InitWeb ==
    /\ schema = "full"
    /\ sources = {}
    /\ feed_items = {}
    /\ stories = {}
    /\ story_sources = <<>>
    /\ config = ConfigProbe
    /\ FeedIdle
    /\ SynthIdle
    /\ ParseIdle
    /\ SearchIdle
    /\ pageStories \in SUBSET StoryPool
    /\ pageSearch \in SUBSET SearchPool
    /\ feedLimit = 0
    /\ feed = <<>>

NextWeb == \E limit \in Limits : GetCombinedFeed(limit)

SpecWeb == InitWeb /\ [][NextWeb]_vars

\* y is newer than the returned row x
Newer(y, x) ==
    /\ Coalesce(y) # NULL
    /\ (Coalesce(x) = NULL \/ Coalesce(y)[1] > Coalesce(x)[1])

Returned == Range(feed[1])

C39_OneRowPerUrl ==
    \A i, j \in DOMAIN feed[1] : feed[1][i].url = feed[1][j].url => i = j

C39_NewestOfItsUrl ==
    \A x \in Returned :
        \A y \in Combined : y.url = <<x.url>> => ~Newer(y, x)

C39_LimitLatest ==
    /\ Len(feed[1]) = Min(feedLimit, Cardinality(CombinedUrls))
    /\ \A y \in Combined :
          (\A x \in Returned : x.url # y.url[1]) =>
              \A x \in Returned : ~Newer(y, x)

\* C39: getCombinedFeed(limit) returns at most one row per URL across both
\* tables, that row is the newest one for its URL, and the rows returned are
\* the limit latest ones among all URLs: no URL that is left out has a row
\* newer than a returned row.
C39_CombinedFeed ==
    feed # <<>> => C39_OneRowPerUrl /\ C39_NewestOfItsUrl /\ C39_LimitLatest

====
